---- MODULE Spec2Model ----
(***************************************************************************)
(* A model of the coin protocol core of mmgen (src/mmgen/protocol.py) and  *)
(* of the signing orchestrator of src/mmgen/tx.py.                         *)
(*                                                                         *)
(* Conventions                                                             *)
(*  - a byte string is a sequence of integers 0..255;                      *)
(*  - a text string is a sequence of one-character strings;                *)
(*  - a Python int of arbitrary size is its minimal big-endian digit       *)
(*    sequence (<<>> is 0), so 256-bit arithmetic is exact;                *)
(*  - a call that may raise returns a record whose field st is "ok" or     *)
(*    the name of the exception.                                           *)
(***************************************************************************)
EXTENDS Integers, Sequences, FiniteSets, TLC

VARIABLES
    \* ---- codec / key / address pipelines (protocol.py) ----
    ppc,        \* position of the pipeline under test
    proto,      \* protocol class the operation is called on ("" for the bare codec)
    inp,        \* the operation's arguments
    pre,        \* result of preprocess_key
    enc,        \* result of the encoder (_b58chk_encode, hex2wif, pubhash2addr)
    dec,        \* result of the decoder (_b58chk_decode, parse_wif, parse_addr)
    hq,         \* the byte string the hash oracle was asked first
    hchk,       \* hash256bytes(hq)[:4]
    hother,     \* hash256bytes(b)[:4] of any other string asked
    \* ---- signing orchestrator (tx.py) ----
    spc,        \* position in sign_transaction / sign_tx_with_bitcoind_wallet
    entry,      \* the function the signing attempt was entered through
    nkeys,      \* len(keys), 0 for keys=None
    reply,      \* what the last RPC or prompt answered
    unlocked,   \* the daemon wallet was unlocked by walletpassphrase and not locked since
    passOk,     \* walletpassphrase succeeded in this attempt
    lockCalled, \* walletlock was invoked in this attempt
    invalidKey, \* signrawtransaction raised InvalidAddressOrKey in this attempt
    rpcAfterInvalid, \* an RPC was issued after that
    prompts,    \* passphrase prompts so far (counted up to MaxPrompts)
    exitCode,   \* sys.exit status, -1 while the process runs
    \* ---- protocol registry (protocol.py) ----
    classes,    \* the protocol classes that exist: name -> class record
    coins,      \* CoinProtocol.coins: symbol -> <<main class, testnet class[, trust level]>>
    g_testnet,  \* g.testnet
    g_network,  \* g.network
    g_regtest,  \* g.regtest
    g_coin,     \* g.coin
    g_proto,    \* g.proto
    ret,        \* the last call of the registry API and how it ended
    \* ---- key pre-verification (tx.py) ----
    pv_pc,      \* position in preverify_keys
    pv_in,      \* its arguments: addrs_orig and keys_orig (as sets)
    pv_addrs,   \* addrs: the addresses not matched yet
    pv_todo,    \* the keys the running loop has not visited yet
    pv_cur,     \* the key of the current iteration
    pv_wrong,   \* wrong_keys
    pv_out,     \* how the call ended: exit status (-1: none), messages, interrupt
    \* ---- transaction files (tx.py) ----
    fs,         \* the files written so far: records of a path and its lines
    tx_in,      \* the transaction read back from a .raw file, and from which
    fs_last,    \* the last persistence operation, the path it wrote, its metadata
    \* ---- key gathering for internal inputs (tx.py) ----
    gk_pc,        \* position in get_keys_for_mmgen_addrs
    gk_in,        \* its arguments mmgen_addrs and opts
    gk_seed_ids,  \* seed_ids: the seed IDs not resolved yet
    gk_seeds_keys,\* seeds_keys: the cached seeds not consumed yet
    gk_infiles,   \* infiles
    gk_seeds,     \* seeds: the cache, as the set of its seed IDs
    gk_ret,       \* ret
    gk_cur        \* seed and infile of the current iteration

pipeVars == <<ppc, proto, inp, pre, enc, dec, hq, hchk, hother>>

signVars == <<spc, entry, nkeys, reply, unlocked, passOk, lockCalled, invalidKey,
              rpcAfterInvalid, prompts, exitCode>>

regVars == <<classes, coins, g_testnet, g_network, g_regtest, g_coin, g_proto, ret>>

pvVars == <<pv_pc, pv_in, pv_addrs, pv_todo, pv_cur, pv_wrong, pv_out>>

fsVars == <<fs, tx_in, fs_last>>

gkVars == <<gk_pc, gk_in, gk_seed_ids, gk_seeds_keys, gk_infiles, gk_seeds, gk_ret, gk_cur>>

vars == <<pipeVars, signVars, regVars, pvVars, fsVars, gkVars>>

Min(a, b) == IF a < b THEN a ELSE b
Max(a, b) == IF a > b THEN a ELSE b

(***************************************************************************)
(* Python sequence slicing.                                                *)
(***************************************************************************)
Take(s, n)     == SubSeq(s, 1, Min(n, Len(s)))                  \* s[:n]
Drop(s, n)     == SubSeq(s, Min(n, Len(s)) + 1, Len(s))         \* s[n:]
LastN(s, n)    == SubSeq(s, Max(1, Len(s) - n + 1), Len(s))     \* s[-n:]
DropLastN(s, n) == IF Len(s) <= n THEN <<>> ELSE SubSeq(s, 1, Len(s) - n) \* s[:-n]
Reverse(s)     == [i \in 1..Len(s) |-> s[Len(s) + 1 - i]]       \* s[::-1]
Rep(x, n)      == [i \in 1..n |-> x]                            \* [x] * n

\* len(s) - len(s.lstrip(x))
LeadCount(s, x) ==
    IF \A i \in 1..Len(s) : s[i] = x THEN Len(s)
    ELSE (CHOOSE i \in 1..Len(s) : s[i] # x /\ \A j \in 1..(i - 1) : s[j] = x) - 1

AllZero(b) == \A i \in 1..Len(b) : b[i] = 0

(***************************************************************************)
(* Arbitrary-size integers as minimal big-endian digit sequences.          *)
(***************************************************************************)
Norm(ds) == Drop(ds, LeadCount(ds, 0))

RECURSIVE DivDigits(_, _, _, _, _)
\* divmod of the number with digits ds (radix base) by the small number d
DivDigits(ds, base, d, carry, q) ==
    IF ds = <<>> THEN [q |-> Norm(q), r |-> carry]
    ELSE LET cur == carry * base + Head(ds)
         IN  DivDigits(Tail(ds), base, d, cur % d, Append(q, cur \div d))

RECURSIVE Digits(_, _, _)
\* the digits of n (radix from) in radix to, least significant first:
\*   while n: yield n % to; n //= to
Digits(n, from, to) ==
    IF n = <<>> THEN <<>>
    ELSE LET dm == DivDigits(n, from, to, 0, <<>>)
         IN  <<dm.r>> \o Digits(dm.q, from, to)

(***************************************************************************)
(* hash256bytes(b)[:4].  SHA-256 is a library primitive; it is modelled as *)
(* an oracle: the values of the all-zero strings the model uses are the    *)
(* real ones, every other string gets a value drawn when it is first       *)
(* asked (hq |-> hchk, any other string |-> hother).                       *)
(***************************************************************************)
ZeroHash ==
    [n \in {0, 1, 2, 3, 4, 20, 21, 22, 32, 33, 34, 192, 193, 194} |->
        CASE n = 0   -> <<93, 246, 224, 226>>
          [] n = 1   -> <<20, 6, 224, 88>>
          [] n = 2   -> <<64, 127, 235, 74>>
          [] n = 3   -> <<120, 228, 55, 246>>
          [] n = 4   -> <<140, 185, 1, 37>>
          [] n = 20  -> <<246, 234, 183, 185>>
          [] n = 21  -> <<148, 160, 9, 17>>
          [] n = 22  -> <<223, 207, 131, 254>>
          [] n = 32  -> <<43, 50, 219, 108>>
          [] n = 33  -> <<68, 207, 135, 74>>
          [] n = 34  -> <<26, 62, 236, 244>>
          [] n = 192 -> <<140, 230, 9, 4>>
          [] n = 193 -> <<0, 11, 181, 62>>
          [] n = 194 -> <<86, 72, 184, 177>>]

HashPinned(b) == AllZero(b) /\ Len(b) \in DOMAIN ZeroHash

hash256bytes4(b, q, c, o) ==
    IF HashPinned(b) THEN ZeroHash[Len(b)]
    ELSE IF b = q THEN c ELSE o

(***************************************************************************)
(* Base58Check                                                             *)
(***************************************************************************)
_b58a ==
    <<"1","2","3","4","5","6","7","8","9","A","B","C","D","E","F","G","H",
      "J","K","L","M","N","P","Q","R","S","T","U","V","W","X","Y","Z",
      "a","b","c","d","e","f","g","h","i","j","k","m","n","o","p","q","r",
      "s","t","u","v","w","x","y","z">>

b58index(ch) == (CHOOSE i \in 1..Len(_b58a) : _b58a[i] = ch) - 1

\* _b58chk_encode(bstr), with chk = hash256bytes(bstr)[:4]
_b58chk_encode(bstr, chk) ==
    LET lzeroes == LeadCount(bstr, 0)
        n       == Norm(bstr \o chk)
        ds      == Reverse(Digits(n, 256, 58))
    IN  Rep("1", lzeroes) \o [i \in 1..Len(ds) |-> _b58a[ds[i] + 1]]

\* _b58chk_decode(s)
_b58chk_decode(s, q, c, o) ==
    LET lzeroes == LeadCount(s, "1")
        res     == Norm([i \in 1..Len(s) |-> b58index(s[i])])
        out     == Rep(0, lzeroes) \o Reverse(Digits(res, 58, 256))
    IN  IF LastN(out, 4) # hash256bytes4(DropLastN(out, 4), q, c, o)
        THEN [st |-> "ValueError", val |-> <<>>]
        ELSE [st |-> "ok", val |-> DropLastN(out, 4)]

(***************************************************************************)
(* Hex text <-> bytes (bytes.fromhex, bytes.hex)                           *)
(***************************************************************************)
HexLower == <<"0","1","2","3","4","5","6","7","8","9","a","b","c","d","e","f">>
HexUpper == <<"A","B","C","D","E","F">>

HexVal(ch) ==
    IF \E i \in 1..16 : HexLower[i] = ch
    THEN (CHOOSE i \in 1..16 : HexLower[i] = ch) - 1
    ELSE (CHOOSE i \in 1..6 : HexUpper[i] = ch) + 9

fromhex(h) ==
    [i \in 1..(Len(h) \div 2) |-> HexVal(h[2 * i - 1]) * 16 + HexVal(h[2 * i])]

tohex(b) ==
    [i \in 1..(2 * Len(b)) |->
        IF i % 2 = 1 THEN HexLower[(b[(i + 1) \div 2] \div 16) + 1]
                     ELSE HexLower[(b[i \div 2] % 16) + 1]]

\* mmgen.util.is_hex_str_lc
is_hex_str_lc(t) == \A i \in 1..Len(t) : \E k \in 1..16 : HexLower[k] = t[i]

(***************************************************************************)
(* Comparison, subtraction and remainder of arbitrary-size integers        *)
(***************************************************************************)
\* a < b for digit sequences of the same length
LessSeq(a, b) ==
    \E i \in 1..Len(a) : a[i] < b[i] /\ \A j \in 1..(i - 1) : a[j] = b[j]

LessInt(a, b) == Len(a) < Len(b) \/ (Len(a) = Len(b) /\ LessSeq(a, b))

\* a - b for a >= b (radix 256)
SubInt(a, b) ==
    LET n  == Len(a)
        bp == Rep(0, n - Len(b)) \o b
        borrow(i) == IF LessSeq(SubSeq(a, i + 1, n), SubSeq(bp, i + 1, n)) THEN 1 ELSE 0
    IN  Norm([i \in 1..n |-> (a[i] - bp[i] - borrow(i) + 256) % 256])

RECURSIVE ModInt(_, _)
ModInt(a, m) == IF LessInt(a, m) THEN a ELSE ModInt(SubInt(a, m), m)

\* n.to_bytes(len,'big')
to_bytes(n, len) == Rep(0, len - Len(n)) \o n

(***************************************************************************)
(* The protocol classes.  A class is the record of the attributes its      *)
(* class statement sets; base names the class it inherits the rest from.   *)
(* A method attribute names the class body that defines the method.        *)
(***************************************************************************)
secp256k1_ge ==
    <<255, 255, 255, 255, 255, 255, 255, 255, 255, 255, 255, 255, 255, 255, 255, 254,
      186, 174, 220, 230, 175, 72, 160, 59, 191, 210, 94, 140, 208, 54, 65, 65>>

BitcoinProtocol ==
    [ base |-> "",
       addr_ver_bytes |-> <<[ver |-> <<"0", "0">>, fmt |-> "p2pkh"], [ver |-> <<"0", "5">>, fmt |-> "p2sh"]>>,
       addr_len |-> 20,
       wif_ver_num |-> <<[type |-> "std", ver |-> <<"8", "0">>]>>,
       mmtypes |-> <<"L", "C", "S", "B">>,
       dfl_mmtype |-> "L",
       witness_vernum |-> 0,
       bech32_hrp |-> <<"b", "c">>,
       privkey_len |-> 32,
       mmcaps |-> <<"key", "addr", "rpc", "tx">>,
       get_addr_len |-> "bitcoin",
       preprocess_key |-> "bitcoin",
       hex2wif |-> "bitcoin",
       parse_wif |-> "bitcoin",
       parse_addr |-> "bitcoin",
       pubhash2addr |-> "bitcoin" ]

BitcoinTestnetProtocol ==
    [ base |-> "BitcoinProtocol",
       addr_ver_bytes |-> <<[ver |-> <<"6", "f">>, fmt |-> "p2pkh"], [ver |-> <<"c", "4">>, fmt |-> "p2sh"]>>,
       wif_ver_num |-> <<[type |-> "std", ver |-> <<"e", "f">>]>>,
       bech32_hrps |-> [testnet |-> <<"t", "b">>, regtest |-> <<"b", "c", "r", "t">>] ]

BitcoinCashProtocol ==
    [ base |-> "BitcoinProtocol",
       mmtypes |-> <<"L", "C">> ]

BitcoinCashTestnetProtocol ==
    [ base |-> "BitcoinCashProtocol",
       addr_ver_bytes |-> <<[ver |-> <<"6", "f">>, fmt |-> "p2pkh"], [ver |-> <<"c", "4">>, fmt |-> "p2sh"]>>,
       wif_ver_num |-> <<[type |-> "std", ver |-> <<"e", "f">>]>> ]

B2XProtocol ==
    [ base |-> "BitcoinProtocol" ]

B2XTestnetProtocol ==
    [ base |-> "B2XProtocol",
       addr_ver_bytes |-> <<[ver |-> <<"6", "f">>, fmt |-> "p2pkh"], [ver |-> <<"c", "4">>, fmt |-> "p2sh"]>>,
       wif_ver_num |-> <<[type |-> "std", ver |-> <<"e", "f">>]>> ]

LitecoinProtocol ==
    [ base |-> "BitcoinProtocol",
       addr_ver_bytes |-> <<[ver |-> <<"3", "0">>, fmt |-> "p2pkh"], [ver |-> <<"3", "2">>, fmt |-> "p2sh"], [ver |-> <<"0", "5">>, fmt |-> "p2sh"]>>,
       wif_ver_num |-> <<[type |-> "std", ver |-> <<"b", "0">>]>>,
       mmtypes |-> <<"L", "C", "S", "B">>,
       bech32_hrp |-> <<"l", "t", "c">> ]

LitecoinTestnetProtocol ==
    [ base |-> "LitecoinProtocol",
       addr_ver_bytes |-> <<[ver |-> <<"6", "f">>, fmt |-> "p2pkh"], [ver |-> <<"3", "a">>, fmt |-> "p2sh"], [ver |-> <<"c", "4">>, fmt |-> "p2sh"]>>,
       wif_ver_num |-> <<[type |-> "std", ver |-> <<"e", "f">>]>>,
       bech32_hrps |-> [testnet |-> <<"t", "l", "t", "c">>, regtest |-> <<"r", "l", "t", "c">>] ]

BitcoinProtocolAddrgen ==
    [ base |-> "BitcoinProtocol",
       mmcaps |-> <<"key", "addr">> ]

BitcoinTestnetProtocolAddrgen ==
    [ base |-> "BitcoinTestnetProtocol",
       mmcaps |-> <<"key", "addr">> ]

EthereumProtocol ==
    [ base |-> "BitcoinProtocol",
       hex2wif |-> "dummy",
       parse_wif |-> "dummy",
       addr_len |-> 20,
       mmtypes |-> <<"E">>,
       dfl_mmtype |-> "E",
       pubkey_type |-> "std",
       mmcaps |-> <<"key", "addr", "rpc">>,
       parse_addr |-> "ethereum",
       pubhash2addr |-> "ethereum" ]

EthereumTestnetProtocol ==
    [ base |-> "EthereumProtocol" ]

EthereumClassicProtocol ==
    [ base |-> "EthereumProtocol" ]

EthereumClassicTestnetProtocol ==
    [ base |-> "EthereumClassicProtocol" ]

ZcashProtocol ==
    [ base |-> "BitcoinProtocolAddrgen",
       addr_ver_bytes |-> <<[ver |-> <<"1", "c", "b", "8">>, fmt |-> "p2pkh"], [ver |-> <<"1", "c", "b", "d">>, fmt |-> "p2sh"], [ver |-> <<"1", "6", "9", "a">>, fmt |-> "zcash_z"], [ver |-> <<"a", "8", "a", "b", "d", "3">>, fmt |-> "viewkey"]>>,
       wif_ver_num |-> <<[type |-> "std", ver |-> <<"8", "0">>], [type |-> "zcash_z", ver |-> <<"a", "b", "3", "6">>]>>,
       mmtypes |-> <<"L", "C", "Z">>,
       dfl_mmtype |-> "L",
       get_addr_len |-> "zcash",
       preprocess_key |-> "zcash",
       pubhash2addr |-> "zcash" ]

ZcashTestnetProtocol ==
    [ base |-> "ZcashProtocol",
       wif_ver_num |-> <<[type |-> "std", ver |-> <<"e", "f">>], [type |-> "zcash_z", ver |-> <<"a", "c", "0", "8">>]>>,
       addr_ver_bytes |-> <<[ver |-> <<"1", "d", "2", "5">>, fmt |-> "p2pkh"], [ver |-> <<"1", "c", "b", "a">>, fmt |-> "p2sh"], [ver |-> <<"1", "6", "b", "6">>, fmt |-> "zcash_z"], [ver |-> <<"a", "8", "a", "c", "0", "c">>, fmt |-> "viewkey"]>> ]

MoneroProtocol ==
    [ base |-> "BitcoinProtocolAddrgen",
       hex2wif |-> "dummy",
       parse_wif |-> "dummy",
       addr_ver_bytes |-> <<[ver |-> <<"1", "2">>, fmt |-> "monero"], [ver |-> <<"2", "a">>, fmt |-> "monero_sub"]>>,
       addr_len |-> 68,
       wif_ver_num |-> <<>>,
       mmtypes |-> <<"M">>,
       dfl_mmtype |-> "M",
       pubkey_type |-> "monero",
       preprocess_key |-> "monero",
       parse_addr |-> "monero" ]

MoneroTestnetProtocol ==
    [ base |-> "MoneroProtocol",
       addr_ver_bytes |-> <<[ver |-> <<"3", "5">>, fmt |-> "monero"], [ver |-> <<"3", "f">>, fmt |-> "monero_sub"]>> ]

CoreClasses ==
    [ BitcoinProtocol |-> BitcoinProtocol,
      BitcoinTestnetProtocol |-> BitcoinTestnetProtocol,
      BitcoinCashProtocol |-> BitcoinCashProtocol,
      BitcoinCashTestnetProtocol |-> BitcoinCashTestnetProtocol,
      B2XProtocol |-> B2XProtocol,
      B2XTestnetProtocol |-> B2XTestnetProtocol,
      LitecoinProtocol |-> LitecoinProtocol,
      LitecoinTestnetProtocol |-> LitecoinTestnetProtocol,
      BitcoinProtocolAddrgen |-> BitcoinProtocolAddrgen,
      BitcoinTestnetProtocolAddrgen |-> BitcoinTestnetProtocolAddrgen,
      EthereumProtocol |-> EthereumProtocol,
      EthereumTestnetProtocol |-> EthereumTestnetProtocol,
      EthereumClassicProtocol |-> EthereumClassicProtocol,
      EthereumClassicTestnetProtocol |-> EthereumClassicTestnetProtocol,
      ZcashProtocol |-> ZcashProtocol,
      ZcashTestnetProtocol |-> ZcashTestnetProtocol,
      MoneroProtocol |-> MoneroProtocol,
      MoneroTestnetProtocol |-> MoneroTestnetProtocol ]

RECURSIVE HasAttr(_, _, _)
\* hasattr(cls, a)
HasAttr(cl, cls, a) ==
    \/ a \in DOMAIN cl[cls]
    \/ (cl[cls].base # "" /\ HasAttr(cl, cl[cls].base, a))

RECURSIVE Attr(_, _, _)
\* cls.a, resolved along the inheritance chain
Attr(cl, cls, a) ==
    IF a \in DOMAIN cl[cls] THEN cl[cls][a] ELSE Attr(cl, cl[cls].base, a)

\* super(cls,cls).m : the method m found from the class after cls
SuperMethod(cl, cls, m) == Attr(cl, cl[cls].base, m)

InSeq(x, s) == \E i \in 1..Len(s) : s[i] = x

Raise(e) == [st |-> e, val |-> <<>>]
Ok(v)    == [st |-> "ok", val |-> v]

(***************************************************************************)
(* preprocess_key                                                          *)
(***************************************************************************)
\* BitcoinProtocol.preprocess_key; ts is g.test_suite
BitcoinProtocol_preprocess_key(cl, cls, sec, pubkey_type, ts) ==
    LET pk == Norm(sec)
    IN  IF pk # <<>> /\ LessInt(pk, Norm(secp256k1_ge))
        THEN [st |-> "ok", val |-> sec, warned |-> FALSE]
        ELSE IF pk = <<>> THEN [st |-> "exit3", val |-> <<>>, warned |-> FALSE]
        ELSE IF pk = Norm(secp256k1_ge)
             THEN [st |-> "exit3", val |-> <<>>, warned |-> FALSE]
        ELSE IF ~ts
             \* ymsg(...format(hexpriv)): hexpriv is not defined in this scope
             THEN [st |-> "NameError", val |-> <<>>, warned |-> FALSE]
        ELSE [st |-> "ok",
              val |-> to_bytes(ModInt(pk, Norm(secp256k1_ge)), Attr(cl, cls, "privkey_len")),
              warned |-> FALSE]

\* ZcashProtocol.preprocess_key
ZcashProtocol_preprocess_key(cl, cls, sec, pubkey_type, ts) ==
    IF pubkey_type = "zcash_z"
    THEN [st |-> "ok", val |-> <<sec[1] % 16>> \o Tail(sec), warned |-> FALSE]
    ELSE IF SuperMethod(cl, cls, "preprocess_key") = "zcash"
         \* super(cls,cls) is this method again, with the same cls
         THEN [st |-> "RecursionError", val |-> <<>>, warned |-> FALSE]
         ELSE BitcoinProtocol_preprocess_key(cl, cls, sec, pubkey_type, ts)

\* mmgen.ed25519.l, the order of the Ed25519 subgroup
ed25519_l ==
    <<16, 0, 0, 0, 0, 0, 0, 0, 0, 0, 0, 0, 0, 0, 0, 0,
      20, 222, 249, 222, 162, 247, 156, 214, 88, 18, 99, 26, 92, 245, 211, 237>>

\* MoneroProtocol.preprocess_key
MoneroProtocol_preprocess_key(cl, cls, sec, pubkey_type, ts) ==
    LET n == ModInt(Norm(Reverse(sec)), Norm(ed25519_l))
    IN  [st |-> "ok", val |-> Reverse(to_bytes(n, Attr(cl, cls, "privkey_len"))),
         warned |-> FALSE]

preprocess_key(cl, cls, sec, pubkey_type, ts) ==
    CASE Attr(cl, cls, "preprocess_key") = "bitcoin" ->
            BitcoinProtocol_preprocess_key(cl, cls, sec, pubkey_type, ts)
      [] Attr(cl, cls, "preprocess_key") = "zcash" ->
            ZcashProtocol_preprocess_key(cl, cls, sec, pubkey_type, ts)
      [] Attr(cl, cls, "preprocess_key") = "monero" ->
            MoneroProtocol_preprocess_key(cl, cls, sec, pubkey_type, ts)

(***************************************************************************)
(* hex2wif / parse_wif                                                     *)
(***************************************************************************)
WifTypes(cl, cls) ==
    LET w == Attr(cl, cls, "wif_ver_num") IN { w[i].type : i \in 1..Len(w) }

WifVer(cl, cls, pubkey_type) ==
    LET w == Attr(cl, cls, "wif_ver_num")
    IN  w[CHOOSE i \in 1..Len(w) : w[i].type = pubkey_type].ver

\* the byte string BitcoinProtocol.hex2wif hands to _b58chk_encode
\* hex2wif without the compressed-key suffix
WifPayload_noSuffix(cl, cls, hexpriv, pubkey_type, compressed) ==
    fromhex(WifVer(cl, cls, pubkey_type)) \o fromhex(hexpriv)

WifPayload(cl, cls, hexpriv, pubkey_type, compressed) ==
    fromhex(WifVer(cl, cls, pubkey_type)) \o fromhex(hexpriv)
        \o (IF compressed THEN <<1>> ELSE <<>>)

\* BitcoinProtocol.hex2wif; chk is hash256bytes(payload)[:4]
BitcoinProtocol_hex2wif(cl, cls, hexpriv, pubkey_type, compressed, chk) ==
    IF Len(fromhex(hexpriv)) # Attr(cl, cls, "privkey_len") THEN Raise("AssertionError")
    ELSE IF pubkey_type \notin WifTypes(cl, cls) THEN Raise("AssertionError")
    ELSE Ok(_b58chk_encode(WifPayload(cl, cls, hexpriv, pubkey_type, compressed), chk))

\* DummyWIF.hex2wif
DummyWIF_hex2wif(cl, cls, hexpriv, pubkey_type, compressed, chk) ==
    IF pubkey_type # Attr(cl, cls, "pubkey_type") THEN Raise("AssertionError")
    ELSE IF compressed # FALSE THEN Raise("AssertionError")
    ELSE Ok(hexpriv)

hex2wif(cl, cls, hexpriv, pubkey_type, compressed, chk) ==
    IF Attr(cl, cls, "hex2wif") = "dummy"
    THEN DummyWIF_hex2wif(cl, cls, hexpriv, pubkey_type, compressed, chk)
    ELSE BitcoinProtocol_hex2wif(cl, cls, hexpriv, pubkey_type, compressed, chk)

parsed_wif(sec, pubkey_type, compressed) ==
    [st |-> "ok", sec |-> sec, pubkey_type |-> pubkey_type, compressed |-> compressed]

WifErr(e) == [st |-> e, sec |-> <<>>, pubkey_type |-> "", compressed |-> FALSE]

\* BitcoinProtocol.parse_wif
BitcoinProtocol_parse_wif(cl, cls, wif, q, c, o) ==
    LET d  == _b58chk_decode(wif, q, c, o)
        w  == Attr(cl, cls, "wif_ver_num")
        hit(i) == LET v == fromhex(w[i].ver) IN Take(d.val, Len(v)) = v
        n  == Attr(cl, cls, "privkey_len")
    IN  IF d.st # "ok" THEN WifErr("ValueError")
        ELSE IF ~\E i \in 1..Len(w) : hit(i) THEN WifErr("ValueError")
        ELSE LET k   == CHOOSE i \in 1..Len(w) : hit(i) /\ \A j \in 1..(i - 1) : ~hit(j)
                 key == Drop(d.val, Len(fromhex(w[k].ver)))
             IN  IF Len(key) = n + 1
                 THEN IF key[Len(key)] # 1 THEN WifErr("AssertionError")
                      ELSE parsed_wif(Take(key, n), w[k].type, TRUE)
                 ELSE IF Len(key) = n
                 THEN parsed_wif(Take(key, n), w[k].type, FALSE)
                 ELSE WifErr("ValueError")

\* DummyWIF.parse_wif
DummyWIF_parse_wif(cl, cls, wif, q, c, o) ==
    parsed_wif(fromhex(wif), Attr(cl, cls, "pubkey_type"), FALSE)

parse_wif(cl, cls, wif, q, c, o) ==
    IF Attr(cl, cls, "parse_wif") = "dummy"
    THEN DummyWIF_parse_wif(cl, cls, wif, q, c, o)
    ELSE BitcoinProtocol_parse_wif(cl, cls, wif, q, c, o)

(***************************************************************************)
(* Addresses                                                               *)
(***************************************************************************)
\* BitcoinProtocol.addr_fmt_to_ver_bytes(req_fmt, return_hex=True); False if absent
\* a lookup that takes the last entry of the format instead of the first
addr_fmt_to_ver_bytes_last(cl, cls, req_fmt) ==
    LET m == Attr(cl, cls, "addr_ver_bytes")
        hit(i) == m[i].fmt = req_fmt
    IN  IF \E i \in 1..Len(m) : hit(i)
        THEN Ok(m[CHOOSE i \in 1..Len(m) : hit(i) /\ \A j \in (i + 1)..Len(m) : ~hit(j)].ver)
        ELSE Raise("False")

addr_fmt_to_ver_bytes(cl, cls, req_fmt) ==
    LET m == Attr(cl, cls, "addr_ver_bytes")
        hit(i) == m[i].fmt = req_fmt
    IN  IF \E i \in 1..Len(m) : hit(i)
        THEN Ok(m[CHOOSE i \in 1..Len(m) : hit(i) /\ \A j \in 1..(i - 1) : ~hit(j)].ver)
        ELSE Raise("False")

\* get_addr_len (BitcoinProtocol, overridden by ZcashProtocol)
get_addr_len(cl, cls, addr_fmt) ==
    IF Attr(cl, cls, "get_addr_len") = "zcash"
    THEN (IF addr_fmt \in {"zcash_z", "viewkey"} THEN 64 ELSE 20)
    ELSE Attr(cl, cls, "addr_len")

parsed_addr(bytes, fmt) == [st |-> "ok", bytes |-> bytes, fmt |-> fmt]

AddrErr(e) == [st |-> e, bytes |-> <<>>, fmt |-> ""]

\* BitcoinProtocol.parse_addr_bytes
\* parse_addr_bytes without the test of the body length
parse_addr_bytes_anylen(cl, cls, addr_bytes) ==
    LET m == Attr(cl, cls, "addr_ver_bytes")
        hit(i) == Take(addr_bytes, Len(fromhex(m[i].ver))) = fromhex(m[i].ver)
    IN  IF \E i \in 1..Len(m) : hit(i)
        THEN LET k == CHOOSE i \in 1..Len(m) : hit(i) /\ \A j \in 1..(i - 1) : ~hit(j)
             IN  parsed_addr(Drop(addr_bytes, Len(fromhex(m[k].ver))), m[k].fmt)
        ELSE AddrErr("False")

\* parse_addr_bytes that keeps the version bytes in the parsed address
parse_addr_bytes_keepver(cl, cls, addr_bytes) ==
    LET m == Attr(cl, cls, "addr_ver_bytes")
        hit(i) == LET ver_bytes == fromhex(m[i].ver)
                      vlen == Len(ver_bytes)
                  IN  /\ Take(addr_bytes, vlen) = ver_bytes
                      /\ Len(Drop(addr_bytes, vlen)) = get_addr_len(cl, cls, m[i].fmt)
    IN  IF \E i \in 1..Len(m) : hit(i)
        THEN LET k == CHOOSE i \in 1..Len(m) : hit(i) /\ \A j \in 1..(i - 1) : ~hit(j)
             IN  parsed_addr(addr_bytes, m[k].fmt)
        ELSE AddrErr("False")

parse_addr_bytes(cl, cls, addr_bytes) ==
    LET m == Attr(cl, cls, "addr_ver_bytes")
        hit(i) == LET ver_bytes == fromhex(m[i].ver)
                      vlen == Len(ver_bytes)
                  IN  /\ Take(addr_bytes, vlen) = ver_bytes
                      /\ Len(Drop(addr_bytes, vlen)) = get_addr_len(cl, cls, m[i].fmt)
    IN  IF \E i \in 1..Len(m) : hit(i)
        THEN LET k == CHOOSE i \in 1..Len(m) : hit(i) /\ \A j \in 1..(i - 1) : ~hit(j)
             IN  parsed_addr(Drop(addr_bytes, Len(fromhex(m[k].ver))), m[k].fmt)
        ELSE AddrErr("False")

\* the byte string BitcoinProtocol.pubhash2addr hands to _b58chk_encode
AddrPayload(cl, cls, pubkey_hash, p2sh) ==
    fromhex(addr_fmt_to_ver_bytes(cl, cls, IF p2sh THEN "p2sh" ELSE "p2pkh").val
            \o pubkey_hash)

\* BitcoinProtocol.pubhash2addr; chk is hash256bytes(payload)[:4]
BitcoinProtocol_pubhash2addr(cl, cls, pubkey_hash, p2sh, chk) ==
    IF Len(pubkey_hash) # 40 THEN Raise("AssertionError")
    ELSE IF addr_fmt_to_ver_bytes(cl, cls, IF p2sh THEN "p2sh" ELSE "p2pkh").st # "ok"
         THEN Raise("TypeError")       \* False + pubkey_hash
    ELSE Ok(_b58chk_encode(AddrPayload(cl, cls, pubkey_hash, p2sh), chk))

\* EthereumProtocol.pubhash2addr
EthereumProtocol_pubhash2addr(cl, cls, pubkey_hash, p2sh, chk) ==
    IF Len(pubkey_hash) # 40 THEN Raise("AssertionError")
    ELSE IF p2sh THEN Raise("AssertionError")
    ELSE Ok(pubkey_hash)

\* ZcashProtocol.pubhash2addr
ZcashProtocol_pubhash2addr(cl, cls, pubkey_hash, p2sh, chk) ==
    IF Len(pubkey_hash) = 40
    THEN IF SuperMethod(cl, cls, "pubhash2addr") = "zcash"
         \* super(cls,cls) is this method again, with the same cls
         THEN Raise("RecursionError")
         ELSE BitcoinProtocol_pubhash2addr(cl, cls, pubkey_hash, p2sh, chk)
    ELSE IF Len(pubkey_hash) = 128 THEN Raise("NotImplementedError")
    ELSE Raise("ValueError")

pubhash2addr(cl, cls, pubkey_hash, p2sh, chk) ==
    CASE Attr(cl, cls, "pubhash2addr") = "bitcoin" ->
            BitcoinProtocol_pubhash2addr(cl, cls, pubkey_hash, p2sh, chk)
      [] Attr(cl, cls, "pubhash2addr") = "ethereum" ->
            EthereumProtocol_pubhash2addr(cl, cls, pubkey_hash, p2sh, chk)
      [] Attr(cl, cls, "pubhash2addr") = "zcash" ->
            ZcashProtocol_pubhash2addr(cl, cls, pubkey_hash, p2sh, chk)

\* BitcoinProtocol.parse_addr
BitcoinProtocol_parse_addr(cl, cls, addr, q, c, o) ==
    LET hrp == Attr(cl, cls, "bech32_hrp")
    IN  IF InSeq("B", Attr(cl, cls, "mmtypes")) /\ Take(addr, Len(hrp)) = hrp
        THEN AddrErr("bech32")         \* handed to mmgen.bech32.decode
        ELSE LET d == _b58chk_decode(addr, q, c, o)
             IN  IF d.st # "ok" THEN AddrErr("ValueError")
                 ELSE parse_addr_bytes(cl, cls, d.val)

\* EthereumProtocol.parse_addr
EthereumProtocol_parse_addr(cl, cls, addr, q, c, o) ==
    IF is_hex_str_lc(addr) /\ Len(addr) = Attr(cl, cls, "addr_len") * 2
    THEN parsed_addr(fromhex(addr), "ethereum")
    ELSE AddrErr("False")

parse_addr(cl, cls, addr, q, c, o) ==
    CASE Attr(cl, cls, "parse_addr") = "bitcoin" ->
            BitcoinProtocol_parse_addr(cl, cls, addr, q, c, o)
      [] Attr(cl, cls, "parse_addr") = "ethereum" ->
            EthereumProtocol_parse_addr(cl, cls, addr, q, c, o)
      [] Attr(cl, cls, "parse_addr") = "monero" ->
            AddrErr("monero_b58")      \* handed to mmgen.baseconv and keccak_256

\* the assignment made without the hasattr(proto,'bech32_hrps') test
set_bech32_hrp_unguarded(cl, cls, regtest) ==
    [cl EXCEPT ![cls] =
        [a \in DOMAIN cl[cls] \cup {"bech32_hrp"} |->
            IF a = "bech32_hrp"
            THEN Attr(cl, "BitcoinTestnetProtocol", "bech32_hrps")
                    [IF regtest THEN "regtest" ELSE "testnet"]
            ELSE cl[cls][a]]]

\* the assignment made only while the record has no bech32_hrp of its own
set_bech32_hrp_once(cl, cls, regtest) ==
    IF HasAttr(cl, cls, "bech32_hrps") /\ "bech32_hrp" \notin DOMAIN cl[cls]
    THEN [cl EXCEPT ![cls] =
            [a \in DOMAIN cl[cls] \cup {"bech32_hrp"} |->
                IF a = "bech32_hrp"
                THEN Attr(cl, cls, "bech32_hrps")[IF regtest THEN "regtest" ELSE "testnet"]
                ELSE cl[cls][a]]]
    ELSE cl

\* CoinProtocol.__new__'s assignment proto.bech32_hrp = proto.bech32_hrps[tag]
set_bech32_hrp(cl, cls, regtest) ==
    IF HasAttr(cl, cls, "bech32_hrps")
    THEN [cl EXCEPT ![cls] =
            [a \in DOMAIN cl[cls] \cup {"bech32_hrp"} |->
                IF a = "bech32_hrp"
                THEN Attr(cl, cls, "bech32_hrps")[IF regtest THEN "regtest" ELSE "testnet"]
                ELSE cl[cls][a]]]
    ELSE cl

(***************************************************************************)
(* Inputs                                                                  *)
(***************************************************************************)
\* checksums the oracle may answer for a string that is not pinned
ChkSamples == { <<0, 0, 0, 0>>, <<0, 200, 3, 4>>, <<255, 255, 255, 255>> }

ByteSamples == {0, 1, 57, 58, 255}

MaxStrLen == 2

SampleStrings ==
    UNION { [1..n -> ByteSamples] : n \in 0..MaxStrLen }
    \cup { Rep(0, n) : n \in {3, 4, 21, 193} }
    \cup { <<0, 0, 0, 5>>, <<0, 0, 1, 0, 0>>, <<128>> \o Rep(0, 32) }

None == [st |-> "none", val |-> <<>>]

(***************************************************************************)
(* The signing orchestrator: sign_transaction and                          *)
(* sign_tx_with_bitcoind_wallet.  One action per RPC or prompt, with the   *)
(* control flow that follows its answer.                                   *)
(***************************************************************************)
MaxPrompts == 3
MaxKeys == 2

SignIdle ==
    /\ spc = "idle" /\ entry = "" /\ nkeys = 0 /\ reply = "none"
    /\ unlocked = FALSE /\ passOk = FALSE /\ lockCalled = FALSE
    /\ invalidKey = FALSE /\ rpcAfterInvalid = FALSE
    /\ prompts = 0 /\ exitCode = -1

RegIdle ==
    /\ classes = <<>> /\ coins = <<>>
    /\ g_testnet = FALSE /\ g_network = "" /\ g_regtest = FALSE
    /\ g_coin = "" /\ g_proto = ""
    /\ ret = [op |-> "none"]

NoKey == [id |-> 0, valid |-> FALSE, addr |-> ""]

PvOut(code, extra, missing, interrupted) ==
    [exit |-> code, extra_reported |-> extra, missing_reported |-> missing,
     interrupted |-> interrupted, completed |-> FALSE]

PvIdle ==
    /\ pv_pc = "idle" /\ pv_in = [addrs |-> {}, keys |-> {}]
    /\ pv_addrs = {} /\ pv_todo = {} /\ pv_cur = NoKey /\ pv_wrong = {}
    /\ pv_out = PvOut(-1, FALSE, FALSE, FALSE)

NoTx == [st |-> "none", meta |-> <<>>, from |-> <<>>]

FsIdle ==
    /\ fs = {} /\ tx_in = NoTx
    /\ fs_last = [op |-> "none", path |-> <<>>, metadata |-> <<>>, opts |-> <<>>]

\* infile = False
NoFile == [name |-> "", ext |-> "", sid |-> ""]

NoSeed == [sid |-> "", infile |-> NoFile]

GkIdle ==
    /\ gk_pc = "idle" /\ gk_in = [mmgen_addrs |-> {}, opts |-> {}]
    /\ gk_seed_ids = {} /\ gk_seeds_keys = {} /\ gk_infiles = <<>>
    /\ gk_seeds = {} /\ gk_ret = {} /\ gk_cur = NoSeed

PipeIdle ==
    /\ ppc = "idle" /\ proto = "" /\ inp = [op |-> "none"]
    /\ pre = None /\ enc = None /\ dec = None
    /\ hq = <<>> /\ hchk = <<0, 0, 0, 0>> /\ hother = <<0, 0, 0, 0>>

\* what c.signrawtransaction can answer: a signed transaction, or an exception
SignReplies == {"ok", "InvalidAddressOrKey", "WalletUnlockNeeded", "KeyboardInterrupt"}
\* what c.walletpassphrase can answer
PassphraseReplies == {"ok", "WalletPassphraseIncorrect", "WalletError", "KeyboardInterrupt"}
\* what get_bitcoind_passphrase can answer
PromptReplies == {"ok", "KeyboardInterrupt"}
\* what c.walletlock can answer
LockReplies == {"ok", "WalletError"}

\* how sign_transaction ends, given signrawtransaction's answer r
sign_transaction(r) ==
    CASE r = "ok" -> [st |-> "return", code |-> -1]
      [] r = "InvalidAddressOrKey" -> [st |-> "SystemExit", code |-> 3]   \* sys.exit(3)
      [] OTHER -> [st |-> r, code |-> -1]                                  \* propagates

Left == {"returned", "exited", "raised"}

SignInit ==
    /\ spc = "sign1"
    /\ entry \in {"sign_transaction", "sign_tx_with_bitcoind_wallet"}
    /\ nkeys \in 0..MaxKeys
    /\ reply = "none"
    /\ unlocked = FALSE /\ passOk = FALSE /\ lockCalled = FALSE
    /\ invalidKey = FALSE /\ rpcAfterInvalid = FALSE
    /\ prompts = 0 /\ exitCode = -1
    /\ PipeIdle /\ RegIdle /\ PvIdle /\ FsIdle /\ GkIdle

\* sign_transaction called on its own
SignTransaction ==
    /\ entry = "sign_transaction" /\ spc = "sign1"
    /\ \E r \in SignReplies :
          LET res == sign_transaction(r)
          IN  /\ reply' = r
              /\ invalidKey' = (invalidKey \/ r = "InvalidAddressOrKey")
              /\ rpcAfterInvalid' = (rpcAfterInvalid \/ invalidKey)
              /\ spc' = CASE res.st = "return" -> "returned"
                          [] res.st = "SystemExit" -> "exited"
                          [] OTHER -> "raised"
              /\ exitCode' = res.code
    /\ UNCHANGED <<entry, nkeys, unlocked, passOk, lockCalled, prompts>>
    /\ UNCHANGED <<pipeVars, regVars, pvVars, fsVars, gkVars>>

\* sign_tx_with_bitcoind_wallet: try: sig_tx = sign_transaction(...) except: ...
WalletSign1 ==
    /\ entry = "sign_tx_with_bitcoind_wallet" /\ spc = "sign1"
    /\ \E r \in SignReplies :
          LET res == sign_transaction(r)
          IN  /\ reply' = r
              /\ invalidKey' = (invalidKey \/ r = "InvalidAddressOrKey")
              /\ rpcAfterInvalid' = (rpcAfterInvalid \/ invalidKey)
              \* the bare except: catches every exception, SystemExit and
              \* KeyboardInterrupt included
              /\ spc' = IF res.st = "return" THEN "walletlock" ELSE "prompt"
    /\ UNCHANGED <<entry, nkeys, unlocked, passOk, lockCalled, prompts, exitCode>>
    /\ UNCHANGED <<pipeVars, regVars, pvVars, fsVars, gkVars>>

\* passwd = get_bitcoind_passphrase(prompt,opts)
GetPassphrase ==
    /\ spc = "prompt"
    /\ \E r \in PromptReplies :
          /\ reply' = r
          /\ prompts' = Min(prompts + 1, MaxPrompts)
          /\ spc' = IF r = "ok" THEN "walletpassphrase" ELSE "raised"
    /\ UNCHANGED <<entry, nkeys, unlocked, passOk, lockCalled, invalidKey,
                   rpcAfterInvalid, exitCode>>
    /\ UNCHANGED <<pipeVars, regVars, pvVars, fsVars, gkVars>>

\* c.walletpassphrase(passwd, 9999) inside while True
\* a passphrase loop that gives up at the second wrong passphrase
WalletPassphrase_bounded ==
    /\ spc = "walletpassphrase"
    /\ \E r \in PassphraseReplies :
          /\ reply' = r
          /\ rpcAfterInvalid' = (rpcAfterInvalid \/ invalidKey)
          /\ unlocked' = (unlocked \/ r = "ok")
          /\ passOk' = (passOk \/ r = "ok")
          /\ spc' = CASE r = "ok" -> "sign2"
                      [] r = "WalletPassphraseIncorrect" /\ prompts < 2 -> "prompt"
                      [] OTHER -> "raised"
    /\ UNCHANGED <<entry, nkeys, lockCalled, invalidKey, prompts, exitCode>>
    /\ UNCHANGED <<pipeVars, regVars, pvVars, fsVars, gkVars>>

WalletPassphrase ==
    /\ spc = "walletpassphrase"
    /\ \E r \in PassphraseReplies :
          /\ reply' = r
          /\ rpcAfterInvalid' = (rpcAfterInvalid \/ invalidKey)
          /\ unlocked' = (unlocked \/ r = "ok")
          /\ passOk' = (passOk \/ r = "ok")
          /\ spc' = CASE r = "ok" -> "sign2"                         \* break
                      [] r = "WalletPassphraseIncorrect" -> "prompt" \* next iteration
                      [] OTHER -> "raised"
    /\ UNCHANGED <<entry, nkeys, lockCalled, invalidKey, prompts, exitCode>>
    /\ UNCHANGED <<pipeVars, regVars, pvVars, fsVars, gkVars>>

\* the second sig_tx = sign_transaction(...), inside the except clause
WalletSign2 ==
    /\ spc = "sign2"
    /\ \E r \in SignReplies :
          LET res == sign_transaction(r)
          IN  /\ reply' = r
              /\ invalidKey' = (invalidKey \/ r = "InvalidAddressOrKey")
              /\ rpcAfterInvalid' = (rpcAfterInvalid \/ invalidKey)
              /\ spc' = CASE res.st = "return" -> "walletlock"
                          [] res.st = "SystemExit" -> "exited"
                          [] OTHER -> "raised"
              /\ exitCode' = res.code
    /\ UNCHANGED <<entry, nkeys, unlocked, passOk, lockCalled, prompts>>
    /\ UNCHANGED <<pipeVars, regVars, pvVars, fsVars, gkVars>>

\* try: c.walletlock() except: msg("Failed to lock wallet"); return sig_tx
WalletLock ==
    /\ spc = "walletlock"
    /\ \E r \in LockReplies :
          /\ reply' = r
          /\ rpcAfterInvalid' = (rpcAfterInvalid \/ invalidKey)
          /\ lockCalled' = TRUE
          /\ unlocked' = (unlocked /\ r # "ok")
    /\ spc' = "returned"
    /\ UNCHANGED <<entry, nkeys, passOk, invalidKey, prompts, exitCode>>
    /\ UNCHANGED <<pipeVars, regVars, pvVars, fsVars, gkVars>>

SignNext ==
    \/ SignTransaction
    \/ WalletSign1
    \/ GetPassphrase
    \/ WalletPassphrase
    \/ WalletSign2
    \/ WalletLock

SpecSign == SignInit /\ [][SignNext]_vars

\* the program runs on while it can
FairSpecSign == SpecSign /\ WF_vars(SignNext)

(***************************************************************************)
(* Key pre-verification: preverify_keys(addrs_orig, keys_orig).  A key is  *)
(* known by what the library calls say of it: valid is whether             *)
(* b.wiftohex accepts it, addr is the address b.privnum2addr derives.      *)
(***************************************************************************)
MaxPvKeys == 3

\* the external-input addresses
PvAddrs == {"a1", "a2"}

\* two keys of a1, one of a2, one of an address that is no input, one that
\* is no valid WIF
PvKeys ==
    { [id |-> 1, valid |-> TRUE, addr |-> "a1"],
      [id |-> 2, valid |-> TRUE, addr |-> "a1"],
      [id |-> 3, valid |-> TRUE, addr |-> "a2"],
      [id |-> 4, valid |-> TRUE, addr |-> "ax"],
      [id |-> 5, valid |-> FALSE, addr |-> "ax"] }

PvInit ==
    /\ pv_pc = "start"
    /\ pv_in \in [addrs : SUBSET PvAddrs,
                  keys : { K \in SUBSET PvKeys : Cardinality(K) <= MaxPvKeys }]
    /\ pv_addrs = pv_in.addrs
    /\ pv_todo = {} /\ pv_cur = NoKey /\ pv_wrong = {}
    /\ pv_out = PvOut(-1, FALSE, FALSE, FALSE)
    /\ PipeIdle /\ SignIdle /\ RegIdle /\ FsIdle /\ GkIdle

\* if len(keys) < len(addrs): ... sys.exit(2)
PvCheckCount ==
    /\ pv_pc = "start"
    /\ IF Cardinality(pv_in.keys) < Cardinality(pv_addrs)
       THEN pv_pc' = "exited" /\ pv_out' = [pv_out EXCEPT !.exit = 2]
       ELSE pv_pc' = "validate" /\ UNCHANGED pv_out
    /\ UNCHANGED <<pv_in, pv_addrs, pv_todo, pv_cur, pv_wrong>>
    /\ UNCHANGED <<pipeVars, signVars, regVars, fsVars, gkVars>>

\* the first loop collects invalid_keys; any of them: sys.exit(2)
PvValidate ==
    /\ pv_pc = "validate"
    /\ IF \E k \in pv_in.keys : ~k.valid
       THEN pv_pc' = "exited" /\ pv_out' = [pv_out EXCEPT !.exit = 2] /\ UNCHANGED pv_todo
       ELSE pv_pc' = "loop" /\ pv_todo' = pv_in.keys /\ UNCHANGED pv_out
    /\ UNCHANGED <<pv_in, pv_addrs, pv_cur, pv_wrong>>
    /\ UNCHANGED <<pipeVars, signVars, regVars, fsVars, gkVars>>

\* for n,k in enumerate(keys,1): the next key of the set, its address derived;
\* the loop ends when no key is left
PvDerive ==
    /\ pv_pc = "loop"
    /\ IF pv_todo = {}
       THEN pv_pc' = "report" /\ UNCHANGED <<pv_todo, pv_cur>>
       ELSE \E k \in pv_todo :
               /\ pv_cur' = k
               /\ pv_todo' = pv_todo \ {k}
               /\ pv_pc' = "match"
    /\ UNCHANGED <<pv_in, pv_addrs, pv_wrong, pv_out>>
    /\ UNCHANGED <<pipeVars, signVars, regVars, fsVars, gkVars>>

\* if addr in addrs: addrs.remove(addr); if not addrs: break
\* else: wrong_keys.append(k)
PvMatch ==
    /\ pv_pc = "match"
    /\ IF pv_cur.addr \in pv_addrs
       THEN /\ pv_addrs' = pv_addrs \ {pv_cur.addr}
            /\ pv_pc' = IF pv_addrs' = {} THEN "report" ELSE "loop"
            /\ UNCHANGED pv_wrong
       ELSE /\ pv_wrong' = pv_wrong \cup {pv_cur}
            /\ pv_pc' = "loop"
            /\ UNCHANGED pv_addrs
    /\ UNCHANGED <<pv_in, pv_todo, pv_cur, pv_out>>
    /\ UNCHANGED <<pipeVars, signVars, regVars, fsVars, gkVars>>

PvInterrupt_propagates ==
    /\ pv_pc \in {"loop", "match"}
    /\ pv_pc' = "raised"
    /\ pv_out' = [pv_out EXCEPT !.interrupted = TRUE]
    /\ UNCHANGED <<pv_in, pv_addrs, pv_todo, pv_cur, pv_wrong>>
    /\ UNCHANGED <<pipeVars, signVars, regVars, fsVars, gkVars>>

\* except KeyboardInterrupt: msg("\nSkipping")
PvInterrupt ==
    /\ pv_pc \in {"loop", "match"}
    /\ pv_pc' = "returned"
    /\ pv_out' = [pv_out EXCEPT !.interrupted = TRUE]
    /\ UNCHANGED <<pv_in, pv_addrs, pv_todo, pv_cur, pv_wrong>>
    /\ UNCHANGED <<pipeVars, signVars, regVars, fsVars, gkVars>>

\* a KeyboardInterrupt outside the try statement propagates
PvInterruptOutside ==
    /\ pv_pc \in {"start", "validate", "report"}
    /\ pv_pc' = "raised"
    /\ UNCHANGED <<pv_in, pv_addrs, pv_todo, pv_cur, pv_wrong, pv_out>>
    /\ UNCHANGED <<pipeVars, signVars, regVars, fsVars, gkVars>>

\* the else clause of the try statement
PvReport ==
    /\ pv_pc = "report"
    /\ pv_out' = [pv_out EXCEPT !.completed = TRUE,
                                !.extra_reported = (pv_wrong # {}),
                                !.missing_reported = (pv_addrs # {}),
                                !.exit = IF pv_addrs # {} THEN 2 ELSE -1]
    /\ pv_pc' = IF pv_addrs # {} THEN "exited" ELSE "returned"
    /\ UNCHANGED <<pv_in, pv_addrs, pv_todo, pv_cur, pv_wrong>>
    /\ UNCHANGED <<pipeVars, signVars, regVars, fsVars, gkVars>>

PvNext ==
    \/ PvCheckCount
    \/ PvValidate
    \/ PvDerive
    \/ PvMatch
    \/ PvInterrupt
    \/ PvInterruptOutside
    \/ PvReport

SpecPreverify == PvInit /\ [][PvNext]_vars

(***************************************************************************)
(* Transaction files.  Text is a sequence of characters; a Python literal  *)
(* that the model never looks into (a dict of one input, one map entry) is *)
(* one element of the sequence.                                            *)
(***************************************************************************)
MaxFiles == 3

\* number of leading characters of t that are no whitespace
RECURSIVE WordLen(_)
WordLen(t) ==
    IF t = <<>> \/ Head(t) = " " THEN 0 ELSE 1 + WordLen(Tail(t))

\* str.split(): the maximal runs of characters that are no whitespace
RECURSIVE split(_)
split(t) ==
    IF t = <<>> THEN <<>>
    ELSE IF Head(t) = " " THEN split(Tail(t))
    ELSE <<Take(t, WordLen(t))>> \o split(Drop(t, WordLen(t)))

\* sep.join(words)
RECURSIVE join(_, _)
join(sep, words) ==
    IF words = <<>> THEN <<>>
    ELSE IF Len(words) = 1 THEN words[1]
    ELSE words[1] \o sep \o join(sep, Tail(words))

\* str.upper() of a hex digest
str_upper(t) ==
    [i \in 1..Len(t) |->
        IF \E k \in 11..16 : HexLower[k] = t[i]
        THEN HexUpper[(CHOOSE k \in 11..16 : HexLower[k] = t[i]) - 10]
        ELSE t[i]]

\* unhexlify(h) raises no exception
unhexlify_ok(h) ==
    /\ Len(h) % 2 = 0
    /\ \A i \in 1..Len(h) :
          \/ \E k \in 1..16 : HexLower[k] = h[i]
          \/ \E k \in 1..6 : HexUpper[k] = h[i]

\* mmgen.util.make_chksum_6: six hex digits of a hash of the bytes
make_chksum_6(b) ==
    IF b = <<170>> THEN <<"3","f","9","a","1","c">>
    ELSE IF b = <<187>> THEN <<"0","7","b","e","4","2">>
    ELSE <<"d","d","0","0","5","1">>

\* mmgen.util.make_timestamp
make_timestamp == <<"2","0","1","4","0","3","0","1","_","1","2","0","0","0","0">>

\* repr of a list (open "[", close "]") or of a dict (open "{", close "}")
repr(open, items, close) ==
    <<open>> \o join(<<",", " ">>, [i \in 1..Len(items) |-> <<items[i]>>]) \o <<close>>

\* the items of the text between two brackets: item, ", ", item, ...
RECURSIVE Items(_)
Items(t) ==
    IF t = <<>> THEN [ok |-> TRUE, items |-> <<>>]
    ELSE IF Head(t) \in {",", " ", "[", "]", "{", "}"} THEN [ok |-> FALSE, items |-> <<>>]
    ELSE IF Len(t) = 1 THEN [ok |-> TRUE, items |-> <<Head(t)>>]
    ELSE IF Len(t) >= 4 /\ t[2] = "," /\ t[3] = " "
         THEN LET r == Items(Drop(t, 3))
              IN  [ok |-> r.ok, items |-> <<Head(t)>> \o r.items]
    ELSE [ok |-> FALSE, items |-> <<>>]

\* eval(t): the value of a list, a dict or an integer literal, or an exception
eval(t) ==
    LET inner == SubSeq(t, 2, Len(t) - 1)
    IN  IF Len(t) >= 2 /\ t[1] = "[" /\ t[Len(t)] = "]" /\ Items(inner).ok
        THEN [st |-> "ok", type |-> "list", items |-> Items(inner).items]
        ELSE IF Len(t) >= 2 /\ t[1] = "{" /\ t[Len(t)] = "}" /\ Items(inner).ok
        THEN [st |-> "ok", type |-> "dict", items |-> Items(inner).items]
        ELSE IF Len(t) = 1 /\ (\E k \in 1..10 : HexLower[k] = t[1])
        THEN [st |-> "ok", type |-> "int", items |-> IF t[1] = "0" THEN <<>> ELSE t]
        ELSE [st |-> "raise", type |-> "", items |-> <<>>]

\* not v: an empty list, an empty dict, the integer 0
Falsy(v) == v.items = <<>>

TxExit(code) == [st |-> "exit", code |-> code, val |-> <<>>]

parse_tx_data(tx_data) ==
    IF Len(tx_data) # 4 THEN TxExit(2)
    ELSE IF Len(split(tx_data[1])) # 3 THEN TxExit(2)
    ELSE IF ~unhexlify_ok(tx_data[2]) THEN TxExit(2)
    ELSE IF tx_data = <<>> THEN TxExit(2)                \* if not tx_data
    ELSE IF eval(tx_data[3]).st = "raise" THEN TxExit(2)
    ELSE IF Falsy(eval(tx_data[3])) THEN TxExit(2)
    ELSE IF eval(tx_data[4]).st = "raise" THEN TxExit(2)
    ELSE [st |-> "ok", code |-> -1,
          val |-> <<split(tx_data[1]), tx_data[2], eval(tx_data[3]), eval(tx_data[4])>>]

\* "%s/%s" % (opts['outdir'], outfile) if 'outdir' in opts
InOutdir(opts, outfile) ==
    IF "outdir" \in DOMAIN opts THEN opts.outdir \o <<"/">> \o outfile ELSE outfile

\* "tx_%s[%s]" followed by the extension
TxFileName(tx_id, send_amt, ext) ==
    <<"t", "x", "_">> \o tx_id \o <<"[">> \o send_amt \o <<"]">> \o ext

\* the file name and the lines print_tx_to_file writes
print_tx_to_file(tx, sel_unspent, send_amt, b2m_map, opts) ==
    LET tx_id == str_upper(make_chksum_6(fromhex(tx)))
        metadata == join(<<" ">>, <<tx_id, send_amt, make_timestamp>>)
    IN  [path |-> InOutdir(opts, TxFileName(tx_id, send_amt, <<".", "r", "a", "w">>)),
         data |-> <<metadata, tx, repr("[", sel_unspent, "]"), repr("{", b2m_map, "}")>>]

print_signed_tx_to_file_ownid(tx, sig_tx, metadata, opts) ==
    [path |-> InOutdir(opts, TxFileName(str_upper(make_chksum_6(fromhex(tx))), metadata[2],
                                        <<".", "s", "i", "g">>)),
     data |-> <<join(<<" ">>, metadata), sig_tx>>]

print_signed_tx_to_file(tx, sig_tx, metadata, opts) ==
    [path |-> InOutdir(opts, TxFileName(metadata[1], metadata[2], <<".", "s", "i", "g">>)),
     data |-> <<join(<<" ">>, metadata), sig_tx>>]

print_sent_tx_to_file(tx, metadata, opts) ==
    [path |-> InOutdir(opts, TxFileName(metadata[1], metadata[2], <<".", "o", "u", "t">>)),
     data |-> <<tx>>]

\* mmgen.util.write_to_file: the file is created or replaced
write_to_file(files, f) ==
    { g \in files : g.path # f.path } \cup {f}

\* the transactions written: raw hex, selected inputs, send amount, address map
TxSamples ==
    { [tx |-> <<"a","a">>, sel_unspent |-> <<"i1">>, send_amt |-> <<"0",".","1">>,
       b2m_map |-> <<"m1">>],
      [tx |-> <<"b","b">>, sel_unspent |-> <<"i1", "i2">>, send_amt |-> <<"2">>,
       b2m_map |-> <<>>] }

\* opts: without and with the output directory option
OptsSamples == { <<>>, [outdir |-> <<"d">>] }

\* metadata of a transaction that this run has not read from a file
MetaSamples ==
    { split(print_tx_to_file(t.tx, t.sel_unspent, t.send_amt, t.b2m_map, <<>>).data[1]) :
        t \in TxSamples }

SigTx == <<"5","1">>
SentTxid == <<"e","e">>

FsInit ==
    /\ fs = {} /\ tx_in = NoTx
    /\ fs_last = [op |-> "none", path |-> <<>>, metadata |-> <<>>, opts |-> <<>>]
    /\ PipeIdle /\ SignIdle /\ RegIdle /\ PvIdle /\ GkIdle

HasRoom(f) == (\E g \in fs : g.path = f.path) \/ Cardinality(fs) < MaxFiles

\* mmgen-txcreate: a transaction is written
PrintTx ==
    \E t \in TxSamples, opts \in OptsSamples :
        LET f == print_tx_to_file(t.tx, t.sel_unspent, t.send_amt, t.b2m_map, opts)
        IN  /\ HasRoom(f)
            /\ fs' = write_to_file(fs, f)
            /\ fs_last' = [op |-> "raw", path |-> f.path, metadata |-> <<>>, opts |-> opts]
            /\ UNCHANGED tx_in
            /\ UNCHANGED <<pipeVars, signVars, regVars, pvVars, gkVars>>

\* a .raw file is read: get_lines_from_file, parse_tx_data
ReadTx ==
    \E f \in fs :
        /\ LastN(f.path, 4) = <<".", "r", "a", "w">>
        /\ LET r == parse_tx_data(f.data)
           IN  tx_in' = IF r.st = "ok"
                        THEN [st |-> "ok", meta |-> r.val[1], from |-> f.path]
                        ELSE [st |-> "exit", meta |-> <<>>, from |-> f.path]
        /\ UNCHANGED <<fs, fs_last>>
        /\ UNCHANGED <<pipeVars, signVars, regVars, pvVars, gkVars>>

\* the metadata a later stage can pass: read back from a file, or its caller's
Metadatas == MetaSamples \cup (IF tx_in.st = "ok" THEN {tx_in.meta} ELSE {})

PrintSignedTx ==
    \E t \in TxSamples, metadata \in Metadatas, opts \in OptsSamples :
        LET f == print_signed_tx_to_file(t.tx, SigTx, metadata, opts)
        IN  /\ HasRoom(f)
            /\ fs' = write_to_file(fs, f)
            /\ fs_last' = [op |-> "sig", path |-> f.path, metadata |-> metadata, opts |-> opts]
            /\ UNCHANGED tx_in
            /\ UNCHANGED <<pipeVars, signVars, regVars, pvVars, gkVars>>

PrintSentTx ==
    \E metadata \in Metadatas, opts \in OptsSamples :
        LET f == print_sent_tx_to_file(SentTxid, metadata, opts)
        IN  /\ HasRoom(f)
            /\ fs' = write_to_file(fs, f)
            /\ fs_last' = [op |-> "out", path |-> f.path, metadata |-> metadata, opts |-> opts]
            /\ UNCHANGED tx_in
            /\ UNCHANGED <<pipeVars, signVars, regVars, pvVars, gkVars>>

FsNext ==
    \/ PrintTx
    \/ ReadTx
    \/ PrintSignedTx
    \/ PrintSentTx

SpecFiles == FsInit /\ [][FsNext]_vars

(***************************************************************************)
(* parse_tx_data on the record print_tx_to_file writes and on records made *)
(* elsewhere.                                                              *)
(***************************************************************************)
MetaLines ==
    { <<"3","F"," ","2"," ","T">>, <<"3","F"," "," ","2"," ","T"," ">>,
      <<"3","F"," ","2">>, <<"3","F"," ","2"," ","T"," ","x">>, <<>> }
HexLines == { <<"a","a">>, <<"A","b">>, <<>>, <<"a">>, <<"z","z">> }
InputsLines ==
    { <<"[","i1","]">>, <<"[","i1",","," ","i2","]">>, <<"[","]">>, <<"[","i1">>,
      <<"0">>, <<"7">> }
MapLines == { <<"{","m1","}">>, <<"{","}">>, <<"{","m1">> }

\* the lines of a file that another program, or an editor, has written
ForeignRecords ==
    { <<m, h, i, b>> : m \in MetaLines, h \in HexLines, i \in InputsLines, b \in MapLines }
        \cup { <<>>, <<<<"3","F"," ","2"," ","T">>, <<"a","a">>, <<"[","i1","]">>>>,
               <<<<"3","F"," ","2"," ","T">>, <<"a","a">>, <<"[","i1","]">>, <<"{","}">>, <<>>>> }

TxParseInit ==
    /\ ppc = "tx"
    /\ inp \in [op : {"tx"}, mode : {"print"}, t : TxSamples, opts : OptsSamples,
                rec : {<<>>}]
          \cup [op : {"tx"}, mode : {"foreign"}, t : {CHOOSE t \in TxSamples : TRUE},
                opts : {<<>>}, rec : ForeignRecords]
    /\ proto = "" /\ pre = None /\ enc = None /\ dec = None
    /\ hq = <<>> /\ hchk = <<0, 0, 0, 0>> /\ hother = <<0, 0, 0, 0>>
    /\ SignIdle /\ RegIdle /\ PvIdle /\ FsIdle /\ GkIdle

\* print_tx_to_file writes the record
PrintTxToFile ==
    /\ ppc = "tx" /\ inp.mode = "print"
    /\ enc' = [st |-> "ok",
               val |-> print_tx_to_file(inp.t.tx, inp.t.sel_unspent, inp.t.send_amt,
                                        inp.t.b2m_map, inp.opts).data]
    /\ ppc' = "written"
    /\ UNCHANGED <<proto, inp, pre, dec, hq, hchk, hother>>
    /\ UNCHANGED <<signVars, regVars, pvVars, fsVars, gkVars>>

\* the record comes from elsewhere
ForeignTxFile ==
    /\ ppc = "tx" /\ inp.mode = "foreign"
    /\ enc' = [st |-> "ok", val |-> inp.rec]
    /\ ppc' = "written"
    /\ UNCHANGED <<proto, inp, pre, dec, hq, hchk, hother>>
    /\ UNCHANGED <<signVars, regVars, pvVars, fsVars, gkVars>>

ParseTxData ==
    /\ ppc = "written"
    /\ dec' = parse_tx_data(enc.val)
    /\ ppc' = "parsed"
    /\ UNCHANGED <<proto, inp, pre, enc, hq, hchk, hother>>
    /\ UNCHANGED <<signVars, regVars, pvVars, fsVars, gkVars>>

TxParseNext == PrintTxToFile \/ ForeignTxFile \/ ParseTxData

SpecTxParse == TxParseInit /\ [][TxParseNext]_vars

(***************************************************************************)
(* Amounts: is_btc_amt, check_btc_amt, trim_exponent.  A Decimal is known  *)
(* by its tuple (sign, coefficient, exponent); NaN and Infinity are the    *)
(* special values; "invalid" is a text that Decimal() refuses.             *)
(***************************************************************************)
Dec(sign, coef, exp) == [kind |-> "finite", sign |-> sign, coef |-> coef, exp |-> exp]
NaN == [kind |-> "nan", sign |-> 0, coef |-> 0, exp |-> 0]
Infinity == [kind |-> "inf", sign |-> 0, coef |-> 0, exp |-> 0]
InvalidAmt == [kind |-> "invalid", sign |-> 0, coef |-> 0, exp |-> 0]

AmtFalse == [st |-> "False", val |-> NaN, code |-> -1]
AmtRaise == [st |-> "raise", val |-> NaN, code |-> -1]
AmtOk(d) == [st |-> "ok", val |-> d, code |-> -1]

RECURSIVE Pow10(_)
Pow10(n) == IF n <= 0 THEN 1 ELSE 10 * Pow10(n - 1)

\* d == d.to_integral()
IsIntegral(d) ==
    \/ d.kind = "inf"
    \/ d.kind = "finite" /\ (d.exp >= 0 \/ d.coef % Pow10(-d.exp) = 0)

\* d.quantize(Decimal(1)) of an integral d
quantize1(d) ==
    IF d.kind = "inf" THEN AmtRaise                 \* InvalidOperation
    ELSE AmtOk(Dec(d.sign,
                   IF d.exp >= 0 THEN d.coef * Pow10(d.exp) ELSE d.coef \div Pow10(-d.exp),
                   0))

\* d.normalize(): the trailing zeros of the coefficient go to the exponent
RECURSIVE normalize(_)
normalize(d) ==
    IF d.kind # "finite" THEN d
    ELSE IF d.coef = 0 THEN Dec(d.sign, 0, 0)
    ELSE IF d.coef % 10 = 0 THEN normalize(Dec(d.sign, d.coef \div 10, d.exp + 1))
    ELSE d

trim_exponent(d) ==
    IF IsIntegral(d) THEN quantize1(d) ELSE AmtOk(normalize(d))

is_btc_amt(amt) ==
    IF amt.kind = "invalid" THEN AmtFalse                      \* except: return False
    \* as_tuple()[-1] is 'n' or 'F' for the special values, and int < str
    ELSE IF amt.kind = "finite" /\ amt.exp < -8 THEN AmtFalse
    ELSE IF amt.kind = "finite" /\ amt.coef = 0 THEN AmtFalse  \* ret == 0
    ELSE trim_exponent(amt)

\* bool(ret): False, or a Decimal that is zero, is false
AmtTruthy(r) == r.st = "ok" /\ (r.val.kind # "finite" \/ r.val.coef # 0)

check_btc_amt(amt) ==
    LET r == is_btc_amt(amt)
    IN  IF r.st = "raise" THEN r
        ELSE IF AmtTruthy(r) THEN r
        ELSE [st |-> "exit", val |-> NaN, code |-> 3]

AmtSamples ==
    { Dec(sg, c, e) : sg \in {0, 1}, c \in {0, 1, 10, 15, 120, 12345},
                      e \in {-9, -8, -3, -2, -1, 0, 1, 2} }
        \cup {NaN, Infinity, InvalidAmt}

AmtInit ==
    /\ ppc = "amt"
    /\ inp \in [op : {"amt"}, amt : AmtSamples]
    /\ proto = "" /\ pre = None /\ enc = None /\ dec = None
    /\ hq = <<>> /\ hchk = <<0, 0, 0, 0>> /\ hother = <<0, 0, 0, 0>>
    /\ SignIdle /\ RegIdle /\ PvIdle /\ FsIdle /\ GkIdle

IsBtcAmt ==
    /\ ppc = "amt"
    /\ enc' = is_btc_amt(inp.amt)
    /\ ppc' = "is_btc_amt"
    /\ UNCHANGED <<proto, inp, pre, dec, hq, hchk, hother>>
    /\ UNCHANGED <<signVars, regVars, pvVars, fsVars, gkVars>>

CheckBtcAmt ==
    /\ ppc = "is_btc_amt"
    /\ dec' = check_btc_amt(inp.amt)
    /\ ppc' = "check_btc_amt"
    /\ UNCHANGED <<proto, inp, pre, enc, hq, hchk, hother>>
    /\ UNCHANGED <<signVars, regVars, pvVars, fsVars, gkVars>>

AmtNext == IsBtcAmt \/ CheckBtcAmt

SpecAmt == AmtInit /\ [][AmtNext]_vars

(***************************************************************************)
(* Keys of the internal inputs: get_keys_for_mmgen_addrs.  A seed is known *)
(* by its seed ID, make_chksum_8(seed); the cache holds each seed under    *)
(* its own ID.                                                             *)
(***************************************************************************)
MaxInfiles == 2

SeedIds == {"S1", "S2", "S9"}

\* the requested addresses <seed_id>:<index>
MmgenAddrs == { <<"S1", 1>>, <<"S1", 2>>, <<"S2", 1>> }

\* seed files: wallets of S1, of S2 and of a seed nobody asked for, and an
\* incognito wallet of S1, whose seed depends on the password typed
SeedFiles ==
    { [name |-> "f1", ext |-> "mmdat", sid |-> "S1"],
      [name |-> "f2", ext |-> "mmdat", sid |-> "S2"],
      [name |-> "f9", ext |-> "mmdat", sid |-> "S9"],
      [name |-> "fi", ext |-> "mmincog", sid |-> "S1"] }

\* mmgen.config.incog_ext
incog_ext == "mmincog"

\* opts: no seed option, one of from_brain / from_mnemonic / from_seed, from_incog
GkOpts == { {}, {"from_brain"}, {"from_incog"} }

FromOpts == {"from_brain", "from_mnemonic", "from_seed", "from_incog"}

\* the seed IDs mmgen.util.get_seed_retry can come back with
get_seed_retry(infile, opts) ==
    IF infile = NoFile \/ infile.ext = incog_ext \/ "from_incog" \in opts
    THEN SeedIds                  \* typed in, or decrypted with what was typed in
    ELSE {infile.sid}

RECURSIVE SeqsUpTo(_, _)
SeqsUpTo(S, n) ==
    IF n = 0 THEN {<<>>}
    ELSE SeqsUpTo(S, n - 1) \cup { <<x>> \o q : x \in S, q \in SeqsUpTo(S, n - 1) }

GkInit ==
    /\ gk_pc = "loop"
    /\ gk_in \in [mmgen_addrs : (SUBSET MmgenAddrs) \ {{}}, opts : GkOpts]
    /\ gk_seed_ids = { a[1] : a \in gk_in.mmgen_addrs }
    /\ gk_seeds \in SUBSET {"S1", "S2"}
    /\ gk_seeds_keys = gk_seed_ids \cap gk_seeds
    /\ gk_infiles \in SeqsUpTo(SeedFiles, MaxInfiles)
    /\ gk_ret = {} /\ gk_cur = NoSeed
    /\ PipeIdle /\ SignIdle /\ RegIdle /\ PvIdle /\ FsIdle

\* seed = seeds[seeds_keys.pop(0)]
GkFromCache ==
    /\ gk_pc = "loop" /\ gk_seed_ids # {} /\ gk_seeds_keys # {}
    /\ \E k \in gk_seeds_keys :
          /\ gk_seeds_keys' = gk_seeds_keys \ {k}
          /\ gk_cur' = [gk_cur EXCEPT !.sid = k]      \* infile keeps its last value
    /\ gk_pc' = "seed"
    /\ UNCHANGED <<gk_in, gk_seed_ids, gk_infiles, gk_seeds, gk_ret>>
    /\ UNCHANGED <<pipeVars, signVars, regVars, pvVars, fsVars>>

\* infile = infiles.pop(0); seed = get_seed_retry(infile,opts)
GkFromFile ==
    /\ gk_pc = "loop" /\ gk_seed_ids # {} /\ gk_seeds_keys = {}
    /\ gk_infiles # <<>>
    /\ \E sid \in get_seed_retry(Head(gk_infiles), gk_in.opts) :
          gk_cur' = [sid |-> sid, infile |-> Head(gk_infiles)]
    /\ gk_infiles' = Tail(gk_infiles)
    /\ gk_pc' = "seed"
    /\ UNCHANGED <<gk_in, gk_seed_ids, gk_seeds_keys, gk_seeds, gk_ret>>
    /\ UNCHANGED <<pipeVars, signVars, regVars, pvVars, fsVars>>

\* msg("Need data for seed ID ..."); seed = get_seed_retry("",opts)
GkFromPrompt ==
    /\ gk_pc = "loop" /\ gk_seed_ids # {} /\ gk_seeds_keys = {}
    /\ gk_infiles = <<>>
    /\ gk_in.opts \cap FromOpts # {}
    /\ \E sid \in get_seed_retry(NoFile, gk_in.opts) :
          gk_cur' = [sid |-> sid, infile |-> NoFile]
    /\ gk_pc' = "seed"
    /\ UNCHANGED <<gk_in, gk_seed_ids, gk_seeds_keys, gk_infiles, gk_seeds, gk_ret>>
    /\ UNCHANGED <<pipeVars, signVars, regVars, pvVars, fsVars>>

\* msg("ERROR: ... required for the following seed ID..."); sys.exit(2)
GkNoSource ==
    /\ gk_pc = "loop" /\ gk_seed_ids # {} /\ gk_seeds_keys = {}
    /\ gk_infiles = <<>>
    /\ gk_in.opts \cap FromOpts = {}
    /\ gk_pc' = "exit2"
    /\ UNCHANGED <<gk_in, gk_seed_ids, gk_seeds_keys, gk_infiles, gk_seeds, gk_ret, gk_cur>>
    /\ UNCHANGED <<pipeVars, signVars, regVars, pvVars, fsVars>>

\* seed_id = make_chksum_8(seed); if seed_id in seed_ids: ...
GkResolve ==
    /\ gk_pc = "seed" /\ gk_cur.sid \in gk_seed_ids
    /\ gk_seed_ids' = gk_seed_ids \ {gk_cur.sid}
    /\ gk_seeds' = gk_seeds \cup {gk_cur.sid}
    /\ gk_ret' = gk_ret \cup { [addr |-> a, seed |-> gk_cur.sid] :
                                a \in { b \in gk_in.mmgen_addrs : b[1] = gk_cur.sid } }
    /\ gk_pc' = "loop"
    /\ UNCHANGED <<gk_in, gk_seeds_keys, gk_infiles, gk_cur>>
    /\ UNCHANGED <<pipeVars, signVars, regVars, pvVars, fsVars>>

\* else: the seed of a resolved seed ID, or of a seed ID nobody asked for
GkReject ==
    /\ gk_pc = "seed" /\ gk_cur.sid \notin gk_seed_ids
    /\ IF gk_cur.sid \in { a[1] : a \in gk_in.mmgen_addrs }
       THEN \* msg_r("Ignoring duplicate seed source")
            gk_pc' = "loop" /\ UNCHANGED gk_infiles
       ELSE IF "from_incog" \in gk_in.opts
       THEN \* infiles.insert(0,infile)
            gk_pc' = "loop" /\ gk_infiles' = <<gk_cur.infile>> \o gk_infiles
       ELSE IF gk_cur.infile = NoFile
       THEN \* infile.split(".") with infile = False
            gk_pc' = "AttributeError" /\ UNCHANGED gk_infiles
       ELSE IF gk_cur.infile.ext = incog_ext
       THEN gk_pc' = "loop" /\ gk_infiles' = <<gk_cur.infile>> \o gk_infiles
       ELSE \* msg("Invalid input file ..."); sys.exit(2)
            gk_pc' = "exit2" /\ UNCHANGED gk_infiles
    /\ UNCHANGED <<gk_in, gk_seed_ids, gk_seeds_keys, gk_seeds, gk_ret, gk_cur>>
    /\ UNCHANGED <<pipeVars, signVars, regVars, pvVars, fsVars>>

\* while seed_ids: ... return ret
GkReturn ==
    /\ gk_pc = "loop" /\ gk_seed_ids = {}
    /\ gk_pc' = "returned"
    /\ UNCHANGED <<gk_in, gk_seed_ids, gk_seeds_keys, gk_infiles, gk_seeds, gk_ret, gk_cur>>
    /\ UNCHANGED <<pipeVars, signVars, regVars, pvVars, fsVars>>

GkNext ==
    \/ GkFromCache
    \/ GkFromFile
    \/ GkFromPrompt
    \/ GkNoSource
    \/ GkResolve
    \/ GkReject
    \/ GkReturn

SpecGetKeys == GkInit /\ [][GkNext]_vars

(***************************************************************************)
(* The protocol registry: CoinProtocol, init_genonly_altcoins, init_coin   *)
(***************************************************************************)
\* CoinProtocol.coins as the class statement sets it
CoreCoins ==
    [ btc |-> <<"BitcoinProtocol", "BitcoinTestnetProtocol", 5>>,
      bch |-> <<"BitcoinCashProtocol", "BitcoinCashTestnetProtocol", 5>>,
      ltc |-> <<"LitecoinProtocol", "LitecoinTestnetProtocol", 5>>,
      eth |-> <<"EthereumProtocol", "EthereumTestnetProtocol", 4>>,
      etc |-> <<"EthereumClassicProtocol", "EthereumClassicTestnetProtocol", 4>>,
      zec |-> <<"ZcashProtocol", "ZcashTestnetProtocol", 2>>,
      xmr |-> <<"MoneroProtocol", "MoneroTestnetProtocol", 4>> ]

\* core_coins that misses a core symbol
core_coins_noBtc == DOMAIN CoreCoins \ {"btc"}

\* CoinProtocol.core_coins
core_coins == DOMAIN CoreCoins

\* str.lower() on the symbols and names the model uses
Lowered ==
    [ BTC |-> "btc", BCH |-> "bch", LTC |-> "ltc", ZEC |-> "zec", DASH |-> "dash",
      NMC |-> "nmc", CLAM |-> "clam", XYZ |-> "xyz",
      Bcash |-> "bcash", Dash |-> "dash", Namecoin |-> "namecoin", Clams |-> "clams" ]

lower(t) == IF t \in DOMAIN Lowered THEN Lowered[t] ELSE t

\* str.upper() on the symbols the model uses
Uppered ==
    [ btc |-> "BTC", bch |-> "BCH", ltc |-> "LTC", zec |-> "ZEC", dash |-> "DASH",
      nmc |-> "NMC", clam |-> "CLAM", xyz |-> "XYZ" ]

upper(t) == IF t \in DOMAIN Uppered THEN Uppered[t] ELSE t

\* None where a catalog entry is expected
NoneEntry == [none |-> TRUE]

\* mmgen.altcoin.CoinInfo: the altcoin catalog, per network
\*   (name, symbol, p2pkh version, p2sh version or -1, WIF version, segwit, trust level)
CoinInfo ==
    [ mainnet |->
        << [name |-> "Bcash", symbol |-> "BCH", p2pkh_info |-> 0, p2sh_info |-> 5,
            wif_ver_num |-> 128, has_segwit |-> FALSE, trust_level |-> 5],
           [name |-> "Dash", symbol |-> "DASH", p2pkh_info |-> 76, p2sh_info |-> 16,
            wif_ver_num |-> 204, has_segwit |-> FALSE, trust_level |-> 1],
           [name |-> "Namecoin", symbol |-> "NMC", p2pkh_info |-> 52, p2sh_info |-> 13,
            wif_ver_num |-> 180, has_segwit |-> TRUE, trust_level |-> 2],
           [name |-> "Clams", symbol |-> "CLAM", p2pkh_info |-> 137, p2sh_info |-> -1,
            wif_ver_num |-> 133, has_segwit |-> FALSE, trust_level |-> -1] >>,
      testnet |->
        << [name |-> "Dash", symbol |-> "DASH", p2pkh_info |-> 140, p2sh_info |-> 19,
            wif_ver_num |-> 239, has_segwit |-> FALSE, trust_level |-> 1] >> ]

\* CoinInfo.get_supported_coins(network): the entries that are not disabled
get_supported_coins(network) ==
    LET enabled(e) == e.trust_level > -1
    IN  SelectSeq(CoinInfo[network], enabled)

\* (CoinInfo.get_entry(coin, network),): a 1-tuple of the entry, or of None
get_entry(coin, network) ==
    LET named(e) == e.symbol = upper(coin)
        found == SelectSeq(CoinInfo[network], named)
    IN  IF found = <<>> THEN <<NoneEntry>> ELSE <<found[1]>>

\* make_init_genonly_altcoins_str.make_proto: the class name of an entry
ProtoName(e, testnet) ==
    e.name \o (IF testnet THEN "Testnet" ELSE "") \o "Protocol"

\* make_proto.num2hexstr
num2hexstr(n) ==
    IF n < 256 THEN tohex(<<n>>) ELSE tohex(<<n \div 256, n % 256>>)

\* the class statement make_proto writes for entry e
GeneratedClass(e, testnet) ==
    [ base |-> "Bitcoin" \o (IF testnet THEN "Testnet" ELSE "") \o "ProtocolAddrgen",
      base_coin |-> e.symbol,
      name |-> lower(e.name),
      nameCaps |-> e.name,
      addr_ver_bytes |->
          <<[ver |-> num2hexstr(e.p2pkh_info), fmt |-> "p2pkh"]>>
          \o (IF e.p2sh_info # -1
              THEN <<[ver |-> num2hexstr(e.p2sh_info), fmt |-> "p2sh"]>> ELSE <<>>),
      wif_ver_num |-> <<[type |-> "std", ver |-> num2hexstr(e.wif_ver_num)]>>,
      mmtypes |-> IF e.has_segwit THEN <<"L", "C", "S">> ELSE <<"L", "C">>,
      dfl_mmtype |-> "L" ]

SeqSet(sq) == { sq[i] : i \in 1..Len(sq) }

\* make_proto returns a class statement for e (and not '')
MakesClass(cl, cn, e, testnet) ==
    /\ ProtoName(e, testnet) \notin DOMAIN cl        \* if proto in globals(): return ''
    /\ lower(e.symbol) \notin DOMAIN cn              \* if coin.lower() in CoinProtocol.coins

\* a registration loop without the test for a symbol already registered
Registers_noSymbolGuard(cl, cn, e) ==
    ProtoName(e, FALSE) \notin DOMAIN cl

\* the registration loop writes CoinProtocol.coins[...] = ... for e
Registers(cl, cn, e) ==
    /\ ProtoName(e, FALSE) \notin DOMAIN cl          \* if proto+'Protocol' in globals(): continue
    /\ lower(e.symbol) \notin DOMAIN cn              \* if coin.lower() in CoinProtocol.coins: continue

\* the classes after exec(make_init_genonly_altcoins_str(data))
exec_classes(cl, cn, data) ==
    LET mk(testnet) ==
            { e \in SeqSet(data[IF testnet THEN "testnet" ELSE "mainnet"]) :
                MakesClass(cl, cn, e, testnet) }
        new == { ProtoName(e, FALSE) : e \in mk(FALSE) }
               \cup { ProtoName(e, TRUE) : e \in mk(TRUE) }
    IN  [ c \in DOMAIN cl \cup new |->
            IF c \in DOMAIN cl THEN cl[c]
            ELSE IF \E e \in mk(FALSE) : ProtoName(e, FALSE) = c
                 THEN GeneratedClass(CHOOSE e \in mk(FALSE) : ProtoName(e, FALSE) = c, FALSE)
                 ELSE GeneratedClass(CHOOSE e \in mk(TRUE) : ProtoName(e, TRUE) = c, TRUE) ]

\* CoinProtocol.coins after exec(make_init_genonly_altcoins_str(data))
exec_coins(cl, cn, data) ==
    LET tn_coins == { e.symbol : e \in SeqSet(data.testnet) }
        reg == { e \in SeqSet(data.mainnet) : Registers(cl, cn, e) }
    IN  [ k \in DOMAIN cn \cup { lower(e.symbol) : e \in reg } |->
            IF \E e \in reg : lower(e.symbol) = k
            THEN LET e == CHOOSE e \in reg : lower(e.symbol) = k
                 IN  << ProtoName(e, FALSE),
                        IF e.symbol \in tn_coins THEN ProtoName(e, TRUE) ELSE "None" >>
            ELSE cn[k] ]

\* CoinProtocol.__new__(coin, testnet): how it ends, and the classes afterwards
CoinProtocol_new(cl, cn, regtest, coin, testnet) ==
    IF lower(coin) \notin DOMAIN cn
    THEN [st |-> "AssertionError", val |-> "", classes |-> cl]
    ELSE LET p == cn[lower(coin)][IF testnet THEN 2 ELSE 1]
         IN  [st |-> "ok", val |-> p,
              classes |-> IF p # "None" THEN set_bech32_hrp(cl, p, regtest) ELSE cl]

\* the coin arguments of the lookups, and those of the catalog expansion
LookupArgs == {"BTC", "dash", "NMC", "xyz"}
CoinArgs == LookupArgs \cup {"clam"}

\* the module as imported, g as mmgen.globalvars sets it
RegInit ==
    /\ classes = CoreClasses
    /\ coins = CoreCoins
    /\ g_testnet = FALSE /\ g_network = "mainnet" /\ g_regtest \in BOOLEAN
    /\ g_coin = "BTC" /\ g_proto = "BitcoinProtocol"
    /\ ret = [op |-> "none"]
    /\ PipeIdle /\ SignIdle /\ PvIdle /\ FsIdle /\ GkIdle

\* g.regtest, the flag CoinProtocol.__new__ reads, is switched by the caller
SetRegtest ==
    /\ g_regtest' = ~g_regtest
    /\ ret' = [op |-> "set_regtest"]
    /\ UNCHANGED <<classes, coins, g_testnet, g_network, g_coin, g_proto>>
    /\ UNCHANGED <<pipeVars, signVars, pvVars, fsVars, gkVars>>

\* CoinProtocol(coin, testnet), coin drawn from args
CoinProtocolOn(args) ==
    /\ \E coin \in args, testnet \in BOOLEAN :
          LET r == CoinProtocol_new(classes, coins, g_regtest, coin, testnet)
          IN  /\ classes' = r.classes
              /\ ret' = [op |-> "CoinProtocol", coin |-> coin, testnet |-> testnet,
                         st |-> r.st, val |-> r.val]
    /\ UNCHANGED <<coins, g_testnet, g_network, g_regtest, g_coin, g_proto>>
    /\ UNCHANGED <<pipeVars, signVars, pvVars, fsVars, gkVars>>

\* init_coin(coin, testnet), coin drawn from args; tn = "None" stands for the
\* default testnet=None
InitCoinOn(args) ==
    /\ \E coin \in args, tn \in {"None", "True", "False"} :
          LET t == IF tn = "None" THEN g_testnet ELSE tn = "True"
              r == CoinProtocol_new(classes, coins, g_regtest, upper(coin), t)
          IN  /\ g_testnet' = t
              /\ g_network' = IF t THEN "testnet" ELSE "mainnet"
              /\ g_coin' = upper(coin)
              /\ g_proto' = IF r.st = "ok" THEN r.val ELSE g_proto
              /\ classes' = r.classes
              /\ ret' = [op |-> "init_coin", coin |-> coin, testnet |-> t,
                         st |-> r.st, val |-> r.val]
    /\ UNCHANGED <<coins, g_regtest>>
    /\ UNCHANGED <<pipeVars, signVars, pvVars, fsVars, gkVars>>

CoinProtocolCall == CoinProtocolOn(LookupArgs)

InitCoin == InitCoinOn(LookupArgs)

\* init_genonly_altcoins(usr_coin); usr_coin = "None" stands for the default None
InitGenonlyAltcoins ==
    /\ \E usr_coin \in CoinArgs \cup {"None"} :
          LET networks == IF g_testnet THEN {"mainnet", "testnet"} ELSE {"mainnet"}
              data == [n \in {"mainnet", "testnet"} |->
                          IF n \notin networks THEN <<>>
                          ELSE IF usr_coin = "None" THEN get_supported_coins(n)
                          ELSE get_entry(usr_coin, n)]
              core == usr_coin # "None" /\ lower(usr_coin) \in core_coins
              cinfo == data[g_network][1]
              err == IF usr_coin = "None" \/ core THEN "ok"
                     ELSE IF cinfo = NoneEntry THEN "ValueError"    \* unrecognized coin
                     ELSE IF cinfo.trust_level = -1 THEN "ValueError" \* disabled coin
                     ELSE IF \E n \in networks : data[n][1] = NoneEntry
                          THEN "AttributeError"                      \* make_proto(None)
                     ELSE "ok"
              runs == ~core /\ err = "ok"
              again == IF runs
                       THEN { lower(e.symbol) : e \in
                               { e \in SeqSet(data.mainnet) : lower(e.symbol) \in DOMAIN coins } }
                       ELSE {}
          IN  /\ classes' = IF runs THEN exec_classes(classes, coins, data) ELSE classes
              /\ coins' = IF runs THEN exec_coins(classes, coins, data) ELSE coins
              /\ ret' = [op |-> "init_genonly_altcoins", coin |-> usr_coin,
                         st |-> err,
                         val |-> IF err # "ok" THEN -1
                                 ELSE IF usr_coin = "None" THEN 0
                                 ELSE IF core THEN coins[lower(usr_coin)][3]
                                 ELSE cinfo.trust_level,
                         again |-> again]
    /\ UNCHANGED <<g_testnet, g_network, g_regtest, g_coin, g_proto>>
    /\ UNCHANGED <<pipeVars, signVars, pvVars, fsVars, gkVars>>

Next ==
    \/ SetRegtest
    \/ CoinProtocolCall
    \/ InitCoin
    \/ InitGenonlyAltcoins

Spec == RegInit /\ [][Next]_vars

(***************************************************************************)
(* Lookups of the coins whose testnet record declares bech32_hrps, under a *)
(* regtest flag that changes between the calls.                            *)
(***************************************************************************)
HrpArgs == {"BTC", "LTC", "zec", "xyz"}

HrpLookup == CoinProtocolOn(HrpArgs)

HrpInitCoin == InitCoinOn(HrpArgs)

HrpNext ==
    \/ SetRegtest
    \/ HrpLookup
    \/ HrpInitCoin

SpecHrp == RegInit /\ [][HrpNext]_vars

(***************************************************************************)
(* The bare codec: x -> _b58chk_encode(x) -> _b58chk_decode(...)           *)
(***************************************************************************)
B58Init ==
    /\ ppc = "encode"
    /\ proto = ""
    /\ inp \in { [op |-> "b58chk", x |-> x] : x \in SampleStrings }
    /\ pre = None /\ enc = None /\ dec = None
    /\ hq = <<>> /\ hchk = <<0, 0, 0, 0>> /\ hother = <<0, 0, 0, 0>>
    /\ SignIdle /\ RegIdle /\ PvIdle /\ FsIdle /\ GkIdle

B58Encode ==
    /\ ppc = "encode"
    /\ \E c \in ChkSamples :
          /\ hq' = inp.x
          /\ hchk' = c
          /\ enc' = [st |-> "ok",
                     val |-> _b58chk_encode(inp.x, hash256bytes4(inp.x, inp.x, c, c))]
    /\ ppc' = "decode"
    /\ UNCHANGED <<proto, inp, pre, dec, hother>>
    /\ UNCHANGED <<signVars, regVars, pvVars, fsVars, gkVars>>

B58Decode ==
    /\ ppc = "decode"
    /\ \E o \in ChkSamples :
          /\ hother' = o
          /\ dec' = _b58chk_decode(enc.val, hq, hchk, o)
    /\ ppc' = "done"
    /\ UNCHANGED <<proto, inp, pre, enc, hq, hchk>>
    /\ UNCHANGED <<signVars, regVars, pvVars, fsVars, gkVars>>

B58Next == B58Encode \/ B58Decode

SpecB58 == B58Init /\ [][B58Next]_vars

(***************************************************************************)
(* The key pipeline: preprocess_key(sec), and hex2wif(sec) -> parse_wif    *)
(***************************************************************************)
ge_minus_1 == SubInt(secp256k1_ge, <<1>>)
ge_plus_1  == Take(secp256k1_ge, 31) \o <<secp256k1_ge[32] + 1>>

SecSamples ==
    { Rep(0, 31) \o <<1>>,                \* 1
      ge_minus_1,                         \* the largest valid key
      <<128>> \o Rep(0, 31),
      <<255>> \o Rep(0, 30) \o <<7>>,
      Rep(0, 32),                         \* 0
      secp256k1_ge,                       \* the group order
      ge_plus_1,
      Rep(255, 32) }

PubkeyTypes == {"std", "zcash_z", "monero"}

ClassNames == DOMAIN CoreClasses

KeyInit ==
    /\ ppc \in {"preprocess_key", "hex2wif"}
    /\ proto \in ClassNames
    /\ inp \in [op : {"key"}, sec : SecSamples, pubkey_type : PubkeyTypes,
                compressed : BOOLEAN, test_suite : BOOLEAN]
    /\ (ppc = "preprocess_key" => ~inp.compressed)
    /\ (ppc = "hex2wif" => ~inp.test_suite)
    /\ pre = [st |-> "none", val |-> <<>>, warned |-> FALSE]
    /\ enc = None
    /\ dec = WifErr("none")
    /\ hq = <<>> /\ hchk = <<0, 0, 0, 0>> /\ hother = <<0, 0, 0, 0>>
    /\ SignIdle /\ RegIdle /\ PvIdle /\ FsIdle /\ GkIdle

PreprocessKey ==
    /\ ppc = "preprocess_key"
    /\ pre' = preprocess_key(CoreClasses, proto, inp.sec, inp.pubkey_type, inp.test_suite)
    /\ ppc' = "done"
    /\ UNCHANGED <<proto, inp, enc, dec, hq, hchk, hother>>
    /\ UNCHANGED <<signVars, regVars, pvVars, fsVars, gkVars>>

Hex2Wif ==
    /\ ppc = "hex2wif"
    /\ \E c \in ChkSamples :
          LET hexpriv == tohex(inp.sec)
              r == hex2wif(CoreClasses, proto, hexpriv, inp.pubkey_type, inp.compressed, c)
              hashed == r.st = "ok" /\ Attr(CoreClasses, proto, "hex2wif") # "dummy"
          IN  /\ enc' = r
              /\ hq' = IF hashed THEN WifPayload(CoreClasses, proto, hexpriv,
                                                 inp.pubkey_type, inp.compressed)
                                 ELSE hq
              /\ hchk' = IF hashed THEN c ELSE hchk
              /\ ppc' = IF r.st = "ok" THEN "parse_wif" ELSE "done"
    /\ UNCHANGED <<proto, inp, pre, dec, hother>>
    /\ UNCHANGED <<signVars, regVars, pvVars, fsVars, gkVars>>

ParseWif ==
    /\ ppc = "parse_wif"
    /\ \E o \in ChkSamples :
          /\ hother' = IF Attr(CoreClasses, proto, "parse_wif") # "dummy" THEN o ELSE hother
          /\ dec' = parse_wif(CoreClasses, proto, enc.val, hq, hchk, o)
    /\ ppc' = "done"
    /\ UNCHANGED <<proto, inp, pre, enc, hq, hchk>>
    /\ UNCHANGED <<signVars, regVars, pvVars, fsVars, gkVars>>

KeyNext == PreprocessKey \/ Hex2Wif \/ ParseWif

SpecKey == KeyInit /\ [][KeyNext]_vars

(***************************************************************************)
(* The address pipeline: pubhash2addr(h, p2sh) -> parse_addr               *)
(***************************************************************************)
HashSamples ==
    { Rep(0, 20),
      Rep(0, 19) \o <<1>>,
      <<1>> \o Rep(0, 19),
      Rep(255, 20),
      <<0, 0>> \o Rep(171, 18),
      [i \in 1..20 |-> 11 * i] }

\* whether CoinProtocol was called for the class, and under which tag
HrpStates == {"unset", "testnet", "regtest"}

AddrClasses(net) ==
    IF net = "unset" THEN CoreClasses
    ELSE set_bech32_hrp(CoreClasses, proto, net = "regtest")

AddrInit ==
    /\ ppc = "pubhash2addr"
    /\ proto \in ClassNames
    /\ inp \in [op : {"addr"}, h : HashSamples, p2sh : BOOLEAN, net : HrpStates]
    /\ pre = None /\ enc = None
    /\ dec = AddrErr("none")
    /\ hq = <<>> /\ hchk = <<0, 0, 0, 0>> /\ hother = <<0, 0, 0, 0>>
    /\ SignIdle /\ RegIdle /\ PvIdle /\ FsIdle /\ GkIdle

Pubhash2Addr ==
    /\ ppc = "pubhash2addr"
    /\ \E c \in ChkSamples :
          LET cl == AddrClasses(inp.net)
              pubkey_hash == tohex(inp.h)
              probe == pubhash2addr(cl, proto, pubkey_hash, inp.p2sh, c)
              hashed == probe.st = "ok" /\ Attr(cl, proto, "pubhash2addr") # "ethereum"
              payload == AddrPayload(cl, proto, pubkey_hash, inp.p2sh)
          IN  /\ enc' = IF hashed
                        THEN pubhash2addr(cl, proto, pubkey_hash, inp.p2sh,
                                          hash256bytes4(payload, payload, c, c))
                        ELSE probe
              /\ hq' = IF hashed THEN payload ELSE hq
              /\ hchk' = IF hashed THEN c ELSE hchk
              /\ ppc' = IF probe.st = "ok" THEN "parse_addr" ELSE "done"
    /\ UNCHANGED <<proto, inp, pre, dec, hother>>
    /\ UNCHANGED <<signVars, regVars, pvVars, fsVars, gkVars>>

ParseAddr ==
    /\ ppc = "parse_addr"
    /\ \E o \in ChkSamples :
          LET cl == AddrClasses(inp.net)
          IN  /\ hother' = IF Attr(cl, proto, "parse_addr") = "bitcoin" THEN o ELSE hother
              /\ dec' = parse_addr(cl, proto, enc.val, hq, hchk, o)
    /\ ppc' = "done"
    /\ UNCHANGED <<proto, inp, pre, enc, hq, hchk>>
    /\ UNCHANGED <<signVars, regVars, pvVars, fsVars, gkVars>>

AddrNext == Pubhash2Addr \/ ParseAddr

SpecAddr == AddrInit /\ [][AddrNext]_vars

(***************************************************************************)
(* The Zcash records: preprocess_key of any variant, pubhash2addr of a     *)
(* 20-byte hash, under the mainnet and the testnet record.                 *)
(***************************************************************************)
ZcashClasses == {"ZcashProtocol", "ZcashTestnetProtocol"}

ZcashInit ==
    /\ proto \in ZcashClasses
    /\ \/ KeyInit /\ ppc = "preprocess_key"
       \/ AddrInit

ZcashNext == PreprocessKey \/ Pubhash2Addr \/ ParseAddr

SpecZcash == ZcashInit /\ [][ZcashNext]_vars

(***************************************************************************)
(* Parsing under one record an address that was made either by the         *)
(* record's own pubhash2addr or elsewhere, as the Base58Check encoding of  *)
(* any version prefix and body.                                            *)
(***************************************************************************)
ParseClasses ==
    { "BitcoinProtocol", "BitcoinTestnetProtocol", "LitecoinProtocol",
      "LitecoinTestnetProtocol", "ZcashProtocol" }

\* version prefixes: 00 05 6f 30 32 1cb8 declared by some record, 07 by none
VerSamples == { <<0>>, <<5>>, <<111>>, <<48>>, <<50>>, <<28, 184>>, <<7>> }

BodySamples ==
    { Rep(0, 20), [i \in 1..20 |-> 11 * i], Rep(255, 20),
      Rep(171, 19), Rep(0, 21), Rep(171, 21) }

ParseInit ==
    /\ proto \in ParseClasses
    /\ \/ /\ ppc = "pubhash2addr"
          /\ inp \in [op : {"parse"}, mode : {"pubhash2addr"},
                      h : { b \in BodySamples : Len(b) = 20 }, p2sh : BOOLEAN,
                      net : {"unset"}, ver : {<<>>}]
       \/ /\ ppc = "foreign"
          /\ inp \in [op : {"parse"}, mode : {"foreign"},
                      h : BodySamples, p2sh : {FALSE},
                      net : {"unset"}, ver : VerSamples]
    /\ pre = None /\ enc = None
    /\ dec = AddrErr("none")
    /\ hq = <<>> /\ hchk = <<0, 0, 0, 0>> /\ hother = <<0, 0, 0, 0>>
    /\ SignIdle /\ RegIdle /\ PvIdle /\ FsIdle /\ GkIdle

\* the address arrives as the Base58Check encoding of inp.ver + inp.h
EncodeForeign ==
    /\ ppc = "foreign"
    /\ \E c \in ChkSamples :
          LET payload == inp.ver \o inp.h
          IN  /\ enc' = Ok(_b58chk_encode(payload, hash256bytes4(payload, payload, c, c)))
              /\ hq' = payload
              /\ hchk' = c
    /\ ppc' = "parse_addr"
    /\ UNCHANGED <<proto, inp, pre, dec, hother>>
    /\ UNCHANGED <<signVars, regVars, pvVars, fsVars, gkVars>>

ParseNext == Pubhash2Addr \/ EncodeForeign \/ ParseAddr

SpecParse == ParseInit /\ [][ParseNext]_vars

(***************************************************************************)
(* C6: for every byte string x, _b58chk_decode(_b58chk_encode(x)) returns  *)
(* x (no checksum error), whatever the checksum of x is.                   *)
(***************************************************************************)
C6_B58RoundTrip ==
    (inp.op = "b58chk" /\ ppc = "done") => (dec.st = "ok" /\ dec.val = inp.x)

(***************************************************************************)
(* C4: for every protocol class, every 32-byte secret s with               *)
(* 0 < int(s) < curve order, every key variant the class declares and      *)
(* every compressed flag it accepts, parse_wif(hex2wif(s, variant,         *)
(* compressed)) returns exactly (s, variant, compressed).                  *)
(***************************************************************************)
ValidSecret(sec) == Norm(sec) # <<>> /\ LessInt(Norm(sec), Norm(secp256k1_ge))

DeclaredVariant(cls, t) ==
    IF Attr(CoreClasses, cls, "hex2wif") = "dummy"
    THEN t = Attr(CoreClasses, cls, "pubkey_type")
    ELSE t \in WifTypes(CoreClasses, cls)

AcceptedCompressed(cls, c) ==
    Attr(CoreClasses, cls, "hex2wif") = "dummy" => ~c

WifCase ==
    /\ inp.op = "key" /\ ppc = "done" /\ pre.st = "none"
    /\ ValidSecret(inp.sec)
    /\ DeclaredVariant(proto, inp.pubkey_type)
    /\ AcceptedCompressed(proto, inp.compressed)

C4_WifRoundTrip ==
    WifCase => dec = parsed_wif(inp.sec, inp.pubkey_type, inp.compressed)

C4_Witness ==
    /\ WifCase
    /\ proto = "ZcashTestnetProtocol" /\ inp.pubkey_type = "zcash_z" /\ inp.compressed
    /\ inp.sec = ge_minus_1
    /\ dec.st = "ok" /\ dec.sec = inp.sec /\ dec.compressed

(***************************************************************************)
(* C7: BitcoinProtocol.preprocess_key on a 32-byte secret s returns s when *)
(* 0 < int(s) < curve order, exits with code 3 when int(s) is 0 or the     *)
(* curve order, and otherwise -- in test-suite mode and outside it --      *)
(* warns and returns int(s) mod curve order as 32 big-endian bytes.        *)
(***************************************************************************)
PreprocessCase ==
    /\ inp.op = "key" /\ ppc = "done" /\ pre.st # "none"
    /\ Attr(CoreClasses, proto, "preprocess_key") = "bitcoin"

C7_PreprocessKey ==
    PreprocessCase =>
        IF ValidSecret(inp.sec)
        THEN pre.st = "ok" /\ pre.val = inp.sec
        ELSE IF Norm(inp.sec) = <<>> \/ inp.sec = secp256k1_ge
        THEN pre.st = "exit3"
        ELSE /\ pre.st = "ok"
             /\ pre.warned
             /\ pre.val = to_bytes(ModInt(Norm(inp.sec), Norm(secp256k1_ge)), 32)

(***************************************************************************)
(* C5 as claimed: for every protocol class and every 20-byte hash h,       *)
(* parse_addr(pubhash2addr(h, p2sh=False)) is a parsed address whose bytes *)
(* are h and whose format tag is 'p2pkh'.                                  *)
(***************************************************************************)
P2pkhCase == inp.op = "addr" /\ ppc = "done" /\ ~inp.p2sh

C5_Claimed ==
    P2pkhCase => dec = parsed_addr(inp.h, "p2pkh")

(***************************************************************************)
(* C5 as the code has it: the round trip gives (h, 'p2pkh') under the      *)
(* Base58Check classes whose pubhash2addr is BitcoinProtocol's (Bitcoin,   *)
(* Bitcoin Cash, B2X, Litecoin, their testnets and Addrgen classes, Zcash  *)
(* mainnet); under the Ethereum classes the tag is 'ethereum' with bytes   *)
(* h; under Monero and Zcash testnet pubhash2addr raises and nothing is    *)
(* parsed.                                                                 *)
(***************************************************************************)
C5_P2pkhRoundTrip ==
    P2pkhCase =>
        CASE Attr(CoreClasses, proto, "pubhash2addr") = "ethereum" ->
                dec = parsed_addr(inp.h, "ethereum")
          [] Attr(CoreClasses, proto, "parse_addr") = "monero" ->
                enc.st = "TypeError" /\ dec.st = "none"
          [] proto = "ZcashTestnetProtocol" ->
                enc.st = "RecursionError" /\ dec.st = "none"
          [] OTHER ->
                dec = parsed_addr(inp.h, "p2pkh")

C5_Witness ==
    /\ P2pkhCase
    /\ proto = "BitcoinProtocol" /\ inp.h = Rep(0, 20)
    /\ enc.val = Rep("1", 21) \o <<"4", "o", "L", "v", "T", "2">>
    /\ dec = parsed_addr(inp.h, "p2pkh")

(***************************************************************************)
(* C1: in sign_tx_with_bitcoind_wallet, once walletpassphrase succeeded,   *)
(* walletlock is invoked before the signing attempt is left, on every exit *)
(* path.                                                                   *)
(***************************************************************************)
C1_RelockOnEveryExit ==
    (spc \in Left /\ passOk) => lockCalled

(***************************************************************************)
(* C2: when signrawtransaction raises InvalidAddressOrKey the attempt is   *)
(* fatal: the process exits with code 3 and no further RPC is issued,      *)
(* through either entry point.                                             *)
(***************************************************************************)
C2_InvalidKeyFatal ==
    invalidKey => (spc = "exited" /\ exitCode = 3 /\ ~rpcAfterInvalid)

(***************************************************************************)
(* C3 as claimed: the passphrase prompts of one attempt are bounded, so    *)
(* the attempt ends after finitely many WalletPassphraseIncorrect replies. *)
(***************************************************************************)
C3_Claimed == <>(spc \in Left)

(***************************************************************************)
(* C3 as the code has it: retries are unbounded.  Every                    *)
(* WalletPassphraseIncorrect reply leads back to the prompt, however many  *)
(* prompts were made; the loop is left only when walletpassphrase          *)
(* succeeds or another exception (an interrupt included) propagates.       *)
(***************************************************************************)
C3_RetryUnbounded ==
    [][(spc = "walletpassphrase" /\ spc' # "walletpassphrase")
         => /\ (reply' = "WalletPassphraseIncorrect" => spc' = "prompt")
            /\ (reply' = "ok" => spc' = "sign2")
            /\ (reply' \notin {"ok", "WalletPassphraseIncorrect"} => spc' = "raised")]_vars

C3_Witness ==
    spc = "prompt" /\ reply = "WalletPassphraseIncorrect" /\ prompts = MaxPrompts

(***************************************************************************)
(* The registry claims                                                     *)
(***************************************************************************)
\* every attribute name a class statement sets
FieldNames ==
    UNION { DOMAIN CoreClasses[c] : c \in DOMAIN CoreClasses }
    \cup DOMAIN GeneratedClass(CoinInfo.mainnet[1], FALSE)

\* field a of record c as a caller reads it
FieldView(cl, c, a) ==
    IF HasAttr(cl, c, a) THEN [has |-> TRUE, v |-> Attr(cl, c, a)] ELSE [has |-> FALSE]

\* the records the registry holds
Registered(cn) ==
    { cn[k][i] : k \in DOMAIN cn, i \in 1..2 } \ {"None"}

(***************************************************************************)
(* C8 as claimed: protocol records are immutable after registration: under *)
(* any sequence of CoinProtocol and init_coin calls and changes of the     *)
(* regtest flag, every field of every registered record, bech32_hrp        *)
(* included, keeps the value it had.                                       *)
(***************************************************************************)
C8_Claimed ==
    [][\A c \in Registered(coins) : \A a \in FieldNames :
            FieldView(classes', c, a) = FieldView(classes, c, a)]_vars

(***************************************************************************)
(* C8 as the code has it: a lookup assigns                                 *)
(* bech32_hrp = bech32_hrps[regtest or testnet] on the record it returns   *)
(* when that record has bech32_hrps, which also shows in every record that *)
(* inherits bech32_hrp from it.  Nothing else changes: every other         *)
(* attribute of every class (hence every other field of every registered   *)
(* record), bech32_hrp of the records without bech32_hrps, and every       *)
(* registry entry, keep their values.                                      *)
(***************************************************************************)
C8_OnlyHrpChanges ==
    [][/\ \A k \in DOMAIN coins : k \in DOMAIN coins' /\ coins'[k] = coins[k]
       /\ \A c \in DOMAIN classes :
             /\ c \in DOMAIN classes'
             /\ DOMAIN classes'[c] \ {"bech32_hrp"} = DOMAIN classes[c] \ {"bech32_hrp"}
             /\ \A a \in DOMAIN classes[c] \ {"bech32_hrp"} : classes'[c][a] = classes[c][a]
       /\ classes' # classes => \A c \in Registered(coins) :
             FieldView(classes', c, "bech32_hrp") # FieldView(classes, c, "bech32_hrp")
                => /\ ret'.op \in {"CoinProtocol", "init_coin"}
                   /\ ret'.st = "ok" /\ ret'.val # "None"
                   /\ HasAttr(classes, ret'.val, "bech32_hrps")
                   /\ HasAttr(classes, c, "bech32_hrps")
                   /\ Attr(classes', c, "bech32_hrp") =
                        Attr(classes, ret'.val, "bech32_hrps")
                            [IF g_regtest THEN "regtest" ELSE "testnet"]
      ]_vars

\* a registered record carries the regtest prefix although regtest is off:
\* it was looked up under regtest and the flag changed since
C8_Witness ==
    /\ "BitcoinTestnetProtocol" \in Registered(coins)
    /\ Attr(classes, "BitcoinTestnetProtocol", "bech32_hrp") = <<"b", "c", "r", "t">>
    /\ Attr(CoreClasses, "BitcoinTestnetProtocol", "bech32_hrp") = <<"b", "c">>
    /\ ~g_regtest
    /\ ret.op = "CoinProtocol" /\ ret.st = "ok"

(***************************************************************************)
(* C9: after any sequence of catalog registrations, CoinProtocol(symbol,   *)
(* testnet) (also when called by init_coin) returns the protocol record    *)
(* registered for the pair or fails with the unknown-coin error; it never  *)
(* returns a value that is not a protocol record.                          *)
(***************************************************************************)
C9_RecordOrUnknownCoin ==
    ret.op \in {"CoinProtocol", "init_coin"} =>
        \/ ret.st = "AssertionError" /\ lower(ret.coin) \notin DOMAIN coins
        \/ /\ ret.st = "ok"
           /\ lower(ret.coin) \in DOMAIN coins
           /\ ret.val = coins[lower(ret.coin)][IF ret.testnet THEN 2 ELSE 1]
           /\ ret.val \in DOMAIN classes

(***************************************************************************)
(* C10 as claimed: a catalog expansion that attempts a symbol already in   *)
(* the registry fails with an already_registered error and leaves the      *)
(* registry unchanged.                                                     *)
(***************************************************************************)
C10_Claimed ==
    (ret.op = "init_genonly_altcoins" /\ ret.again # {}) => ret.st = "already_registered"

(***************************************************************************)
(* C10 as the code has it: a catalog expansion skips every symbol already  *)
(* in the registry without an error: init_genonly_altcoins returns         *)
(* normally and the entry of every symbol already present, and the classes *)
(* that exist, are unchanged.                                              *)
(***************************************************************************)
C10_SkippedSilently ==
    [][(ret'.op = "init_genonly_altcoins" /\ ret'.again # {}) =>
          /\ ret'.st = "ok"
          /\ \A k \in DOMAIN coins : k \in DOMAIN coins' /\ coins'[k] = coins[k]
          /\ \A c \in DOMAIN classes : c \in DOMAIN classes' /\ classes'[c] = classes[c]
      ]_vars

\* an expansion met a core symbol and a generated one that were present
C10_Witness ==
    /\ ret.op = "init_genonly_altcoins" /\ ret.st = "ok"
    /\ {"bch", "dash"} \subseteq ret.again
    /\ coins["bch"] = CoreCoins["bch"]
    /\ coins["dash"][1] = "DashProtocol"

(***************************************************************************)
(* C11: a core coin shadows any catalog entry.  Under any sequence of      *)
(* init_genonly_altcoins calls, with a named coin or with None, the        *)
(* registry entries of btc, bch, ltc, eth, etc, zec and xmr stay the       *)
(* records the class statement registered, and                             *)
(* init_genonly_altcoins(core coin) returns that coin's trust level and    *)
(* generates and registers nothing.                                        *)
(***************************************************************************)
C11_CoreShadowsCatalog ==
    [][/\ \A k \in DOMAIN CoreCoins : k \in DOMAIN coins' /\ coins'[k] = CoreCoins[k]
       /\ (ret'.op = "init_genonly_altcoins" /\ lower(ret'.coin) \in DOMAIN CoreCoins)
          => /\ ret'.st = "ok"
             /\ ret'.val = CoreCoins[lower(ret'.coin)][3]
             /\ coins' = coins
             /\ classes' = classes
      ]_vars

\* init_genonly_altcoins('BTC') returned 5 in a registry that catalog
\* expansions, one of them meeting the core symbol bch, had extended
C11_Witness ==
    /\ ret.op = "init_genonly_altcoins" /\ ret.coin = "BTC"
    /\ ret.st = "ok" /\ ret.val = 5
    /\ {"dash", "nmc"} \subseteq DOMAIN coins
    /\ coins["bch"] = <<"BitcoinCashProtocol", "BitcoinCashTestnetProtocol", 5>>

(***************************************************************************)
(* C12: when CoinProtocol(coin, True) returns a record that declares       *)
(* per-network HRPs (the testnet records of BTC and LTC), the record's     *)
(* bech32_hrp is the HRP declared for the tag, regtest or testnet, active  *)
(* at that call, whatever earlier lookups set it to.                       *)
(***************************************************************************)
C12_HrpFollowsTag ==
    ( /\ ret.op \in {"CoinProtocol", "init_coin"}
      /\ ret.st = "ok" /\ ret.testnet
      /\ ret.val \in {"BitcoinTestnetProtocol", "LitecoinTestnetProtocol"} )
    => /\ HasAttr(classes, ret.val, "bech32_hrps")
       /\ Attr(classes, ret.val, "bech32_hrp") =
            Attr(CoreClasses, ret.val, "bech32_hrps")[IF g_regtest THEN "regtest" ELSE "testnet"]

\* the Litecoin testnet record was returned under regtest with 'rltc' while
\* the Bitcoin testnet record still carries 'tb' from a lookup under testnet
C12_Witness ==
    /\ ret.op = "CoinProtocol" /\ ret.st = "ok" /\ ret.testnet
    /\ ret.val = "LitecoinTestnetProtocol"
    /\ g_regtest
    /\ Attr(classes, "LitecoinTestnetProtocol", "bech32_hrp") = <<"r", "l", "t", "c">>
    /\ Attr(classes, "BitcoinTestnetProtocol", "bech32_hrp") = <<"t", "b">>

(***************************************************************************)
(* C13: under Litecoin mainnet the version map is used in insertion order: *)
(* pubhash2addr(h, p2sh=True) encodes with the first p2sh prefix 0x32, and *)
(* parse_addr accepts a 0x32-prefixed and a legacy 0x05-prefixed           *)
(* Base58Check payload with a 20-byte body, returning (body, 'p2sh') in    *)
(* both cases.                                                             *)
(***************************************************************************)
C13_LitecoinP2shOrder ==
    (inp.op = "parse" /\ ppc = "done" /\ proto = "LitecoinProtocol" /\ Len(inp.h) = 20)
    => /\ (inp.mode = "pubhash2addr" /\ inp.p2sh)
          => /\ enc.st = "ok" /\ hq = <<50>> \o inp.h
             /\ dec = parsed_addr(inp.h, "p2sh")
       /\ (inp.mode = "foreign" /\ inp.ver \in {<<50>>, <<5>>})
          => dec = parsed_addr(inp.h, "p2sh")

\* a legacy 3... address (prefix 0x05) was parsed under Litecoin mainnet
C13_Witness ==
    /\ inp.op = "parse" /\ ppc = "done" /\ proto = "LitecoinProtocol"
    /\ inp.mode = "foreign" /\ inp.ver = <<5>> /\ inp.h = Rep(255, 20)
    /\ enc.val[1] = "3"
    /\ dec = parsed_addr(Rep(255, 20), "p2sh")

\* the payload hq fits entry i of the version map of proto: it starts with
\* the entry's prefix and the rest has the length of the entry's format
FitsEntry(i) ==
    LET m == Attr(CoreClasses, proto, "addr_ver_bytes")
        ver_bytes == fromhex(m[i].ver)
    IN  /\ Len(hq) >= Len(ver_bytes)
        /\ \A j \in 1..Len(ver_bytes) : hq[j] = ver_bytes[j]
        /\ Len(hq) - Len(ver_bytes) = get_addr_len(CoreClasses, proto, m[i].fmt)

ParsedCase == inp.op = "parse" /\ ppc = "done" /\ enc.st = "ok" /\ dec.st # "bech32"

(***************************************************************************)
(* C14: parse_addr_bytes returns a parsed address only for a payload that  *)
(* starts with a version prefix of the record's own version map and whose  *)
(* remaining body has the length required for that format, and then        *)
(* returns that body with that format; every other payload is rejected     *)
(* (False).  So a Bitcoin mainnet p2pkh address parsed under the Bitcoin   *)
(* testnet record is rejected.                                             *)
(***************************************************************************)
C14_OnlyDeclaredPrefix ==
    ParsedCase =>
        LET m == Attr(CoreClasses, proto, "addr_ver_bytes")
        IN  /\ IF \E i \in 1..Len(m) : FitsEntry(i)
               THEN \E i \in 1..Len(m) :
                        /\ FitsEntry(i)
                        /\ dec.st = "ok" /\ dec.fmt = m[i].fmt
                        /\ dec.bytes = [j \in 1..(Len(hq) - Len(fromhex(m[i].ver))) |->
                                            hq[j + Len(fromhex(m[i].ver))]]
               ELSE dec = AddrErr("False")
            /\ (proto = "BitcoinTestnetProtocol" /\ inp.ver = <<0>> /\ Len(inp.h) = 20)
               => dec = AddrErr("False")

\* the Bitcoin mainnet zero address was rejected under the Bitcoin testnet record
C14_Witness ==
    /\ ParsedCase /\ proto = "BitcoinTestnetProtocol"
    /\ inp.mode = "foreign" /\ inp.ver = <<0>> /\ inp.h = Rep(0, 20)
    /\ enc.val = Rep("1", 21) \o <<"4", "o", "L", "v", "T", "2">>
    /\ dec = AddrErr("False")

(***************************************************************************)
(* C15: when key pre-verification runs to completion without an interrupt  *)
(* and at least one external-input address is matched by no supplied key,  *)
(* preverify_keys aborts the process with exit code 3.                     *)
(***************************************************************************)
C15_UnmatchedExits3 ==
    (pv_out.completed /\ ~pv_out.interrupted /\ pv_addrs # {})
        => (pv_pc = "exited" /\ pv_out.exit = 3)

(***************************************************************************)
(* C16: a KeyboardInterrupt raised at any point of the pre-verification    *)
(* loop is caught: preverify_keys returns normally, without a process      *)
(* exit and without visiting the remaining keys, whatever addresses are    *)
(* still unmatched and whatever wrong keys were found so far.              *)
(***************************************************************************)
C16_InterruptSkips ==
    /\ [][ (pv_pc \in {"loop", "match"} /\ pv_pc' \notin {"loop", "match", "report"})
             => /\ pv_pc' = "returned"
                /\ pv_out' = [pv_out EXCEPT !.interrupted = TRUE]
                /\ UNCHANGED <<pv_addrs, pv_todo, pv_wrong>> ]_vars
    /\ [](pv_out.interrupted
             => /\ pv_pc = "returned"
                /\ pv_out.exit = -1
                /\ ~pv_out.completed)

\* interrupted with a key unvisited, an address unmatched and a wrong key found
C16_Witness ==
    /\ pv_pc = "returned" /\ pv_out.interrupted
    /\ pv_todo # {} /\ pv_addrs # {} /\ pv_wrong # {}

\* the position of the last "/" of a path (0: none)
LastSlash(path) ==
    IF \E i \in 1..Len(path) : path[i] = "/"
    THEN CHOOSE i \in 1..Len(path) :
            path[i] = "/" /\ \A j \in (i + 1)..Len(path) : path[j] # "/"
    ELSE 0

DirName(path) == Take(path, LastSlash(path))
BaseName(path) == Drop(path, LastSlash(path))
Stem(path) == DropLastN(BaseName(path), 4)
Ext(path) == LastN(path, 4)

\* a later stage has just written its file with the metadata read from a .raw file
LaterStageWrites ==
    /\ tx_in.st = "ok" /\ tx_in' = tx_in
    /\ fs_last' # fs_last \/ fs' # fs
    /\ fs_last'.op \in {"sig", "out"}
    /\ fs_last'.metadata = tx_in.meta

(***************************************************************************)
(* C17 (as stated): with the metadata parsed back from tx_<id>[<amt>].raw, *)
(* the .sig and .out files have the name of the .raw file, output          *)
(* directory included, with only the extension changed.                    *)
(***************************************************************************)
C17_Claimed ==
    [][ LaterStageWrites
          => /\ DropLastN(fs_last'.path, 4) = DropLastN(tx_in.from, 4)
             /\ Ext(fs_last'.path) \in {<<".", "s", "i", "g">>, <<".", "o", "u", "t">>} ]_vars

(***************************************************************************)
(* C17 (amended): with the metadata parsed back from tx_<id>[<amt>].raw,   *)
(* the .sig and .out files have the file name of the .raw file with only   *)
(* the extension changed (the same tx_id and send_amount); each is written *)
(* to the output directory of its own call, which need not be the          *)
(* directory of the .raw file.                                             *)
(***************************************************************************)
C17_SameStem ==
    [][ LaterStageWrites
          => /\ Stem(fs_last'.path) = Stem(tx_in.from)
             /\ Stem(fs_last'.path) =
                   <<"t", "x", "_">> \o tx_in.meta[1] \o <<"[">> \o tx_in.meta[2] \o <<"]">>
             /\ Ext(fs_last'.path) = IF fs_last'.op = "sig" THEN <<".", "s", "i", "g">>
                                                           ELSE <<".", "o", "u", "t">>
             /\ DirName(fs_last'.path) =
                   IF "outdir" \in DOMAIN fs_last'.opts
                   THEN fs_last'.opts.outdir \o <<"/">> ELSE <<>>
             /\ \E f \in fs' : f.path = fs_last'.path ]_vars

\* the .sig file of a transaction read from one directory is in another one
C17_Witness ==
    /\ tx_in.st = "ok" /\ fs_last.op = "sig" /\ fs_last.metadata = tx_in.meta
    /\ \E f \in fs : f.path = tx_in.from
    /\ \E f \in fs : f.path = fs_last.path
    /\ Stem(fs_last.path) = Stem(tx_in.from)
    /\ DirName(fs_last.path) # DirName(tx_in.from)

(***************************************************************************)
(* C18: in every sequence of the persistence operations, a .sig file is    *)
(* written only when the .raw file of the same transaction already exists, *)
(* and a .out file only when its .sig file already exists.                 *)
(***************************************************************************)
C18_RawSigOutInOrder ==
    [][ (fs_last' # fs_last \/ fs' # fs)
          => /\ fs_last'.op = "sig"
                  => \E f \in fs : /\ Stem(f.path) = Stem(fs_last'.path)
                                   /\ Ext(f.path) = <<".", "r", "a", "w">>
             /\ fs_last'.op = "out"
                  => \E f \in fs : /\ Stem(f.path) = Stem(fs_last'.path)
                                   /\ Ext(f.path) = <<".", "s", "i", "g">> ]_vars

\* the amounts C19 wants rejected
Disallowed(d) ==
    \/ d.kind = "nan"
    \/ d.kind = "finite" /\ (d.sign = 1 \/ d.coef = 0 \/ d.exp < -8)

\* r is the value of d, written without exponent and without trailing zeros
Trimmed(d, r) ==
    /\ r.kind = "finite" /\ r.sign = d.sign
    /\ r.exp <= 0
    /\ r.exp < 0 => r.coef % 10 # 0
    /\ IF r.exp >= d.exp THEN r.coef * Pow10(r.exp - d.exp) = d.coef
                         ELSE d.coef * Pow10(d.exp - r.exp) = r.coef

(***************************************************************************)
(* C19: is_btc_amt returns False for every amount that is NaN, negative,   *)
(* zero, or has more than 8 fractional digits, and for every other decimal *)
(* amount returns the value without exponent or trailing zeros;            *)
(* check_btc_amt exits with code 3 exactly when is_btc_amt rejects.        *)
(***************************************************************************)
C19_AmountRule ==
    /\ (ppc \in {"is_btc_amt", "check_btc_amt"} /\ inp.amt.kind \in {"finite", "nan"})
          => IF Disallowed(inp.amt)
             THEN enc.st = "False"
             ELSE enc.st = "ok" /\ Trimmed(inp.amt, enc.val)
    /\ ppc = "check_btc_amt"
          => /\ (dec.st = "exit" /\ dec.code = 3) <=> enc.st = "False"
             /\ dec.st # "exit" => dec = enc

\* the record C20 wants accepted
WellFormedRecord(r) ==
    /\ Len(r) = 4
    /\ Len(split(r[1])) = 3
    /\ unhexlify_ok(r[2])
    /\ eval(r[3]).st = "ok" /\ eval(r[3]).type = "list" /\ eval(r[3]).items # <<>>
    /\ eval(r[4]).st = "ok"

(***************************************************************************)
(* C20: parse_tx_data returns (metadata fields, raw hex, inputs, address   *)
(* map) only for a record of exactly 4 lines whose metadata has exactly 3  *)
(* fields, whose second line is valid hex, whose inputs list is non-empty  *)
(* and whose map line is parsable; every other record is rejected as a     *)
(* validation error with exit code 3; the record written by                *)
(* print_tx_to_file parses back to the values that were written.           *)
(***************************************************************************)
C20_ParseTxData ==
    ppc = "parsed"
      => /\ dec.st = "ok" => WellFormedRecord(enc.val)
         /\ ~WellFormedRecord(enc.val) => (dec.st = "exit" /\ dec.code = 3)
         /\ inp.mode = "print"
              => /\ dec.st = "ok"
                 /\ dec.val[1] = <<str_upper(make_chksum_6(fromhex(inp.t.tx))),
                                   inp.t.send_amt, make_timestamp>>
                 /\ dec.val[2] = inp.t.tx
                 /\ dec.val[3].type = "list" /\ dec.val[3].items = inp.t.sel_unspent
                 /\ dec.val[4].type = "dict" /\ dec.val[4].items = inp.t.b2m_map

(***************************************************************************)
(* C21: under every Zcash record, testnet as well as mainnet,              *)
(* preprocess_key with a variant other than 'zcash_z' and pubhash2addr     *)
(* with a 20-byte hash terminate and delegate once to the Bitcoin-family   *)
(* operation, returning what it returns with the record's own version      *)
(* bytes; only the 'zcash_z' variant takes the top-4-bits-cleared path.    *)
(***************************************************************************)
C21_ZcashDelegates ==
    /\ (proto \in ZcashClasses /\ inp.op = "key" /\ ppc = "done")
          => IF inp.pubkey_type = "zcash_z"
             THEN pre.st = "ok" /\ pre.val = <<inp.sec[1] % 16>> \o Tail(inp.sec)
             ELSE pre = BitcoinProtocol_preprocess_key(CoreClasses, proto, inp.sec,
                                                       inp.pubkey_type, inp.test_suite)
    /\ (proto \in ZcashClasses /\ inp.op = "addr" /\ ppc \in {"parse_addr", "done"})
          => /\ enc.st = "ok"
             /\ hq = AddrPayload(AddrClasses(inp.net), proto, tohex(inp.h), inp.p2sh)
             /\ enc = BitcoinProtocol_pubhash2addr(AddrClasses(inp.net), proto,
                                                   tohex(inp.h), inp.p2sh, hchk)

(***************************************************************************)
(* C22: when pre-verification runs to completion without an interrupt,     *)
(* every supplied key whose derived address is not in the external-input   *)
(* address set is counted and reported as an extra key, in whatever order  *)
(* the keys are visited.                                                   *)
(***************************************************************************)
C22_ExtraKeysReported ==
    (pv_out.completed /\ ~pv_out.interrupted)
        => /\ \A k \in pv_in.keys : k.addr \notin pv_in.addrs => k \in pv_wrong
           /\ (\E k \in pv_in.keys : k.addr \notin pv_in.addrs) => pv_out.extra_reported

(***************************************************************************)
(* C23: get_keys_for_mmgen_addrs ends in one of two ways: it returns       *)
(* exactly one key per requested <seed_id>:<index>, each derived from the  *)
(* seed whose seed ID matches, every used seed being in the cache; or it   *)
(* exits with code 2 because a seed source is missing or invalid.  A seed  *)
(* source of an already resolved seed ID adds no entry.                    *)
(***************************************************************************)
C23_ReturnsKeysOrExits2 ==
    /\ gk_pc \in {"idle", "loop", "seed", "returned", "exit2"}
    /\ gk_pc = "returned"
          => gk_ret = { [addr |-> a, seed |-> a[1]] : a \in gk_in.mmgen_addrs }
    /\ \A r \in gk_ret : r.seed = r.addr[1] /\ r.seed \in gk_seeds
    /\ gk_pc = "exit2" => gk_seed_ids # {}

(***************************************************************************)
(* C24: after any sequence of init_coin calls, failed ones included, the   *)
(* active global state is consistent: g.network is 'testnet' exactly when  *)
(* g.testnet is true, and g.proto is the record registered for the active  *)
(* (g.coin, g.testnet).                                                    *)
(***************************************************************************)
C24_GlobalsConsistent ==
    /\ g_network = "testnet" <=> g_testnet
    /\ g_network \in {"mainnet", "testnet"}
    /\ lower(g_coin) \in DOMAIN coins
    /\ g_proto = coins[lower(g_coin)][IF g_testnet THEN 2 ELSE 1]

\* a catalog coin with a mainnet and a testnet entry
InBothCatalogs(coin) ==
    /\ coin # "None" /\ lower(coin) \notin core_coins
    /\ get_entry(coin, "mainnet")[1] # NoneEntry
    /\ get_entry(coin, "testnet")[1] # NoneEntry

(***************************************************************************)
(* C25: for a catalog coin that has a mainnet and a testnet entry, once    *)
(* init_genonly_altcoins(coin) has succeeded with testnet active the       *)
(* registry holds a testnet record for that coin, whether or not the coin  *)
(* was initialized earlier with only mainnet active.                       *)
(***************************************************************************)
C25_TestnetRecordRegistered ==
    (ret.op = "init_genonly_altcoins" /\ ret.st = "ok" /\ g_testnet /\ InBothCatalogs(ret.coin))
        => /\ lower(ret.coin) \in DOMAIN coins
           /\ coins[lower(ret.coin)][2] # "None"
           /\ coins[lower(ret.coin)][2] \in DOMAIN classes

====
